---- MODULE Spec2Model ----
(***************************************************************************)
(* Geometry and stacking core of container_tool: core/models.py (Box,      *)
(* Stack, Container), core/collision.py (check_collisions) and             *)
(* core/stack.py (can_stack, create_stack, add_to_stack).                  *)
(*                                                                         *)
(* Further parts: models.Project with its lock, core/io_clp.py (save_clp,   *)
(* load_clp), the zoom of gui/canvas_2d.py and gui/table_widget.py.        *)
(*                                                                         *)
(* Python objects live on a heap: `box` maps a Box identity to its fields, *)
(* `stacks` maps a Stack identity to its `_boxes` list (<<>> when no such  *)
(* Stack object has been constructed).  An item handed to the collision    *)
(* engine is a reference [kind, id]; identity (`is`) is equality of        *)
(* references.  `ret` records the last call: its arguments, whether it     *)
(* returned or which exception it raised, and the value returned.          *)
(* All lengths are millimetres.  The floats the code computes are halves   *)
(* of integers far below 2^53, so they are exact; centres are kept doubled *)
(* to stay in the integers.                                                *)
(***************************************************************************)
EXTENDS Integers, Sequences, FiniteSets

VARIABLES box, stacks, container, ret, project, lock, thread, files, canvases, table

vars == <<box, stacks, container, ret, project, lock, thread, files, canvases, table>>

\* what the geometry and stacking functions never touch: the project list
\* and its meta, the locks and threads, the files, the canvases, the table
elsewhere == <<project, lock, thread, files, canvases, table>>

----------------------------------------------------------------------------
(* Bounds and input sets                                                   *)

\* longest `placed` list handed to check_collisions
MaxPlaced == 2
\* longest box list handed to the Stack constructor / create_stack
MaxStackLen == 3

BoxIds == {1, 2, 3}
StackIds == {1}

\* inputs of the collision runs: one footprint of 1000 x 400 at either
\* rotation, at positions that give boxes left of the container, on a cell
\* boundary, across two 1000 mm cells, edge to edge and overlapping
\* (each placement is <<pos_x_mm, pos_y_mm, rot_deg>>)
CollisionPlacements ==
    { <<-200, 0, 0>>, <<0, 0, 0>>, <<400, 0, 0>>, <<400, 700, 0>>, <<0, 0, 90>>, <<400, 0, 90>> }
CollisionShapes == {<<1000, 400>>}
CollisionHeights == {800}
\* the container of tests/test_collision.py stretched to two grid cells, and
\* one whose door is lower than a single box
CollisionContainers ==
    { [inner_length_mm |-> 2000, inner_width_mm |-> 1100, door_height_mm |-> 2000],
      [inner_length_mm |-> 2000, inner_width_mm |-> 1100, door_height_mm |-> 700] }

\* inputs of the stacking runs: the boxes of tests/test_stack.py (1000 x 1000
\* x 500 at (100, 200)) and variants that differ from them in one field: a
\* centre exactly at / just beyond the snap tolerance, another footprint or
\* rotation, and heights that reach (2 x 1114) or pass the door height
StackBase ==
    [length_mm |-> 1000, width_mm |-> 1000, height_mm |-> 500,
     pos_x_mm |-> 100, pos_y_mm |-> 200, rot_deg |-> 0]
StackVariants ==
    { StackBase,
      [StackBase EXCEPT !.pos_x_mm = 110],
      [StackBase EXCEPT !.pos_x_mm = 111],
      [StackBase EXCEPT !.pos_y_mm = 211],
      [StackBase EXCEPT !.length_mm = 900],
      [StackBase EXCEPT !.width_mm = 900],
      [StackBase EXCEPT !.rot_deg = 90],
      [StackBase EXCEPT !.height_mm = 1114],
      [StackBase EXCEPT !.height_mm = 1200] }
\* inputs of the geometry runs: the container of tests/test_collision.py
\* (1000 x 1000, door 2000) with boxes that fill it exactly, pass a wall by
\* 1 mm, start at a negative coordinate, touch one another along an edge or
\* at a corner, overlap, and agree or differ in footprint and height
\* (each is <<length_mm, width_mm, height_mm, pos_x_mm, pos_y_mm, rot_deg>>)
GeometryBoxes ==
    { <<1000, 1000, 100, 0, 0, 0>>, <<1000, 1000, 100, 1, 0, 0>>, <<1000, 1000, 100, 0, 1, 90>>,
      <<400, 400, 100, -1, 100, 0>>, <<400, 400, 200, 100, -1, 0>>,
      <<10, 10, 100, 0, 0, 0>>, <<10, 10, 200, 10, 0, 0>>, <<10, 10, 100, 10, 10, 90>>,
      <<600, 400, 100, 500, 0, 0>>, <<400, 600, 100, 5, 5, 90>> }
GeometryContainer == [inner_length_mm |-> 1000, inner_width_mm |-> 1000, door_height_mm |-> 2000]

\* inputs of the configuration runs: containers that lack a dimension field,
\* and objects that are neither Box nor Stack and have no bbox(): one with
\* the attributes x, y, length, width, one with x, y, length_mm, width_mm
\* and one with none of them
ConfigContainers ==
    { [inner_length_mm |-> 1000, inner_width_mm |-> 1000, door_height_mm |-> 2000],
      [inner_length_mm |-> 1000, inner_width_mm |-> 1000],
      [inner_width_mm |-> 1000, door_height_mm |-> 2000],
      [inner_length_mm |-> 1000, door_height_mm |-> 2000] }
ConfigBoxes == { <<400, 400, 100, 100, 100, 0>>, <<400, 400, 100, 300, 300, 0>> }
ForeignObjects ==
    << [x |-> 100, y |-> 100, length |-> 400, width |-> 400],
       [x |-> 100, y |-> 100, length_mm |-> 400, width_mm |-> 400],
       [name |-> "thing"] >>

\* the container fixture of tests/test_stack.py
StackContainer == [inner_length_mm |-> 12000, inner_width_mm |-> 2300, door_height_mm |-> 2228]

----------------------------------------------------------------------------
(* Small helpers on sequences                                              *)

Range(s) == { s[i] : i \in 1..Len(s) }

\* duplicate-free sequences over S of length at most n
InjSeqs(S, n) ==
    UNION { { s \in [1..k -> S] : \A i, j \in 1..k : i # j => s[i] # s[j] } : k \in 0..n }

\* those in ascending order
AscSeqs(S, n) == { s \in InjSeqs(S, n) : \A i \in 1..Len(s) - 1 : s[i] < s[i + 1] }

RECURSIVE Concat(_)
Concat(ss) == IF ss = <<>> THEN <<>> ELSE Head(ss) \o Concat(Tail(ss))

\* sum of the heights of the boxes `bs` in the heap `hp`
RECURSIVE SumHeightsIn(_, _)
SumHeightsIn(hp, bs) == IF bs = <<>> THEN 0 ELSE hp[Head(bs)].height_mm + SumHeightsIn(hp, Tail(bs))

SumHeights(bs) == SumHeightsIn(box, bs)

Count(s, x) == Cardinality({ i \in 1..Len(s) : s[i] = x })

Abs(n) == IF n < 0 THEN -n ELSE n

----------------------------------------------------------------------------
(* core/models.py                                                          *)

\* what a call that raised has returned
NoValue == [kind |-> "none", id |-> 0]

BoxRef(i) == [kind |-> "box", id |-> i]
StackRef(s) == [kind |-> "stack", id |-> s]

\* the items that exist: every Box, and every constructed Stack
Items == { BoxRef(i) : i \in BoxIds } \cup { StackRef(s) : s \in { t \in StackIds : stacks[t] # <<>> } }

\* Box.bbox without the swap at 90 degrees
Box_bbox_unrotated(b) ==
    <<b.pos_x_mm, b.pos_y_mm, b.pos_x_mm + b.length_mm, b.pos_y_mm + b.width_mm>>

\* Box.bbox
Box_bbox(b) ==
    IF b.rot_deg = 0
    THEN <<b.pos_x_mm, b.pos_y_mm, b.pos_x_mm + b.length_mm, b.pos_y_mm + b.width_mm>>
    ELSE <<b.pos_x_mm, b.pos_y_mm, b.pos_x_mm + b.width_mm, b.pos_y_mm + b.length_mm>>

\* Box.center, doubled
Box_center(b) == <<Box_bbox(b)[1] + Box_bbox(b)[3], Box_bbox(b)[2] + Box_bbox(b)[4]>>

\* Box.rotate: the box after the call
Box_rotate(b) == [b EXCEPT !.rot_deg = IF @ = 0 THEN 90 ELSE 0]

\* Box.__eq__ comparing the height as well
Box_eq_with_height(a, b) ==
    a.length_mm = b.length_mm /\ a.width_mm = b.width_mm /\ a.height_mm = b.height_mm

\* Box.__eq__ between two Box objects
Box_eq(a, b) == a.length_mm = b.length_mm /\ a.width_mm = b.width_mm

\* Box.__hash__: hash((length_mm, width_mm)), a function of that tuple alone;
\* the tuple stands for its hash
Box_hash(b) == <<b.length_mm, b.width_mm>>

\* Stack properties, all derived from _boxes[0]
Stack_first(s) == box[Head(stacks[s])]
Stack_pos_x_mm(s) == Stack_first(s).pos_x_mm
Stack_pos_y_mm(s) == Stack_first(s).pos_y_mm
Stack_rot_deg(s) == Stack_first(s).rot_deg
Stack_length_mm(s) == IF Stack_rot_deg(s) = 0 THEN Stack_first(s).length_mm ELSE Stack_first(s).width_mm
Stack_width_mm(s) == IF Stack_rot_deg(s) = 0 THEN Stack_first(s).width_mm ELSE Stack_first(s).length_mm
Stack_height_mm(s) == Stack_first(s).height_mm

\* Stack.bbox: at 90 degrees it swaps the already rotation-adjusted
\* length_mm / width_mm properties
Stack_bbox(s) ==
    IF Stack_rot_deg(s) = 0
    THEN <<Stack_pos_x_mm(s), Stack_pos_y_mm(s),
           Stack_pos_x_mm(s) + Stack_length_mm(s), Stack_pos_y_mm(s) + Stack_width_mm(s)>>
    ELSE <<Stack_pos_x_mm(s), Stack_pos_y_mm(s),
           Stack_pos_x_mm(s) + Stack_width_mm(s), Stack_pos_y_mm(s) + Stack_length_mm(s)>>

Stack_total_height_mm(s) == Stack_height_mm(s) * Len(stacks[s])
Stack_box_count(s) == Len(stacks[s])

\* Stack.__post_init__ without the test for an empty list
Stack_post_init_allows_empty(bs) ==
    IF \E i \in 2..Len(bs) :
           ~ ( box[bs[i]].length_mm = box[bs[1]].length_mm
               /\ box[bs[i]].width_mm = box[bs[1]].width_mm
               /\ box[bs[i]].rot_deg = box[bs[1]].rot_deg )
    THEN "ValidationError"
    ELSE "ok"

\* Stack.__post_init__: the exception it raises, or "ok"
Stack_post_init(bs) ==
    IF bs = <<>> THEN "ValidationError"
    ELSE IF \E i \in 2..Len(bs) :
              ~ ( box[bs[i]].length_mm = box[bs[1]].length_mm
                  /\ box[bs[i]].width_mm = box[bs[1]].width_mm
                  /\ box[bs[i]].rot_deg = box[bs[1]].rot_deg )
         THEN "ValidationError"
         ELSE "ok"

\* Stack is a @dataclass(slots=True) with the fields name, _boxes and
\* SNAP_TOLERANCE_MM: these are what its __init__ accepts ...
Stack_init_params == {"name", "_boxes", "SNAP_TOLERANCE_MM"}
\* ... and, with the properties and methods, the attributes a Stack has
Stack_attributes ==
    Stack_init_params \cup
    {"pos_x_mm", "pos_y_mm", "rot_deg", "length_mm", "width_mm", "height_mm", "bbox",
     "_center", "total_height_mm", "total_weight_kg", "box_count", "fits", "add_box",
     "rotate", "to_dict", "from_dict"}

\* the default of the field Stack.SNAP_TOLERANCE_MM, the value of the
\* attribute on an instance
SNAP_TOLERANCE_MM == 10

\* Stack.SNAP_TOLERANCE_MM read on the class: slots=True turns the field into
\* a slot, so the class attribute is the slot's member descriptor and the
\* default lives in __init__ only
Stack_class_SNAP_TOLERANCE_MM == [type |-> "member_descriptor", value |-> 0]

\* Stack(**kwargs): the exception the call raises, or "ok"
Stack_init(kwargs, bs) ==
    IF ~ (kwargs \subseteq Stack_init_params) THEN "TypeError" ELSE Stack_post_init(bs)

\* Stack._center, doubled
Stack_center(s) == Box_center(Stack_first(s))

\* Stack.fits without the comparison of rot_deg
Stack_fits_any_rotation(s, b) ==
    IF ~ ( box[b].length_mm = Stack_first(s).length_mm
           /\ box[b].width_mm = Stack_first(s).width_mm )
    THEN FALSE
    ELSE /\ Abs(Stack_center(s)[1] - Box_center(box[b])[1]) <= 2 * SNAP_TOLERANCE_MM
         /\ Abs(Stack_center(s)[2] - Box_center(box[b])[2]) <= 2 * SNAP_TOLERANCE_MM

\* Stack.fits: self.SNAP_TOLERANCE_MM is the instance's field, 10
Stack_fits(s, b) ==
    IF ~ ( box[b].length_mm = Stack_first(s).length_mm
           /\ box[b].width_mm = Stack_first(s).width_mm
           /\ box[b].rot_deg = Stack_first(s).rot_deg )
    THEN FALSE
    ELSE /\ Abs(Stack_center(s)[1] - Box_center(box[b])[1]) <= 2 * SNAP_TOLERANCE_MM
         /\ Abs(Stack_center(s)[2] - Box_center(box[b])[2]) <= 2 * SNAP_TOLERANCE_MM

\* Stack.add_box: the exception raised or "return", and the heap left behind
Stack_add_box(s, b) ==
    IF ~ Stack_fits(s, b)
    THEN [outcome |-> "GeometryError", box |-> box, stacks |-> stacks]
    ELSE [outcome |-> "return",
          box |-> [box EXCEPT ![b].pos_x_mm = Stack_pos_x_mm(s), ![b].pos_y_mm = Stack_pos_y_mm(s)],
          stacks |-> [stacks EXCEPT ![s] = Append(@, b)]]

\* Stack.rotate: b.rotate() once for every entry of _boxes; the boxes after
\* the call
Stack_rotate(s) ==
    [b \in BoxIds |-> IF Count(stacks[s], b) % 2 = 1 THEN Box_rotate(box[b]) ELSE box[b]]

----------------------------------------------------------------------------
(* core/collision.py                                                       *)

DOOR_HEIGHT_COLLISION == [kind |-> "_door_height_", id |-> 0]
_CELL_SIZE == 1000

\* overlaps with the separation tests made strict: rectangles that share an
\* edge count as overlapping
overlaps_closed(a, b) ==
    IF a[3] < b[1] \/ b[3] < a[1] THEN FALSE
    ELSE IF a[4] < b[2] \/ b[4] < a[2] THEN FALSE
    ELSE TRUE

\* overlaps(a, b)
overlaps(a, b) ==
    IF a[3] <= b[1] \/ b[3] <= a[1] THEN FALSE
    ELSE IF a[4] <= b[2] \/ b[4] <= a[2] THEN FALSE
    ELSE TRUE

\* an object that is neither a Box nor a Stack
ObjectRef(k) == [kind |-> "object", id |-> k]
ForeignItems == { ObjectRef(k) : k \in 1..Len(ForeignObjects) }
Attributes(obj) == DOMAIN ForeignObjects[obj.id]

\* _get_bbox raises ValueError: the object has no bbox() and the fallback
\* meets an AttributeError.  The fallback reads obj.x and obj.y, and
\* getattr(obj, "length", obj.length_mm) evaluates its default, obj.length_mm,
\* before looking for `length` (likewise for the width).
_get_bbox_raises(obj) ==
    IF obj.kind \in {"box", "stack"} THEN FALSE
    ELSE ~ ({"x", "y", "length_mm", "width_mm"} \subseteq Attributes(obj))

\* _get_bbox: Box and Stack both have a callable bbox(); any other object
\* goes through the fallback (x, y, x + length, y + width)
_get_bbox(obj) ==
    IF obj.kind = "stack" THEN Stack_bbox(obj.id)
    ELSE IF obj.kind = "box" THEN Box_bbox(box[obj.id])
    ELSE LET o == ForeignObjects[obj.id]
             length == IF "length" \in DOMAIN o THEN o.length ELSE o.length_mm
             width == IF "width" \in DOMAIN o THEN o.width ELSE o.width_mm
         IN  <<o.x, o.y, o.x + length, o.y + width>>

\* lines 65-69 of is_within_container: a length and a width are found on the
\* container (for a record without inner_length_mm neither `inner_length`
\* nor the alias `length` answers)
_container_has_size == {"inner_length_mm", "inner_width_mm"} \subseteq DOMAIN container

\* lines 159-163 of _exceeds_door_height: a door height is found
_container_has_door == "door_height_mm" \in DOMAIN container

\* is_within_container with the walls excluded
is_within_container_open(obj) ==
    LET bb == _get_bbox(obj)
    IN  0 < bb[1] /\ bb[3] < container.inner_length_mm
        /\ 0 < bb[2] /\ bb[4] < container.inner_width_mm

\* is_within_container: Container has no inner_length / inner_width, so the
\* `length` / `width` aliases of inner_length_mm / inner_width_mm are read
is_within_container(obj) ==
    LET bb == _get_bbox(obj)
    IN  0 <= bb[1] /\ bb[3] <= container.inner_length_mm
        /\ 0 <= bb[2] /\ bb[4] <= container.inner_width_mm

\* _is_stack: the class name starts with "stack", or the object has `layers`
_is_stack(obj) ==
    IF obj.kind = "object" THEN "layers" \in Attributes(obj) ELSE obj.kind = "stack"

\* _get_height: getattr(obj, "height", getattr(obj, "height_mm", 0.0)).
\* Stack is a slots dataclass without a `height` attribute (and none can be
\* set on it), so the height_mm property answers: the first box's height.
_get_height(obj) ==
    IF obj.kind = "stack" THEN Stack_height_mm(obj.id)
    ELSE IF obj.kind = "box" THEN box[obj.id].height_mm
    ELSE IF "height" \in Attributes(obj) THEN ForeignObjects[obj.id].height
    ELSE IF "height_mm" \in Attributes(obj) THEN ForeignObjects[obj.id].height_mm
    ELSE 0

\* _exceeds_door_height: Container has no door_height, door_height_mm is read
_exceeds_door_height(obj) == _get_height(obj) > container.door_height_mm

\* _cells_for_bbox with range(start, end) in place of range(start, end + 1)
_cells_for_bbox_exclusive(bb) ==
    LET x_start == bb[1] \div _CELL_SIZE
        y_start == bb[2] \div _CELL_SIZE
        x_end == bb[3] \div _CELL_SIZE
        y_end == bb[4] \div _CELL_SIZE
        ny == y_end - y_start
        n == (x_end - x_start) * ny
    IN  [k \in 1..n |-> <<x_start + ((k - 1) \div ny), y_start + ((k - 1) % ny)>>]

\* _cells_for_bbox: the cells in the order of the list comprehension
_cells_for_bbox(bb) ==
    LET x_start == bb[1] \div _CELL_SIZE
        y_start == bb[2] \div _CELL_SIZE
        x_end == bb[3] \div _CELL_SIZE
        y_end == bb[4] \div _CELL_SIZE
        ny == y_end - y_start + 1
        n == (x_end - x_start + 1) * ny
    IN  [k \in 1..n |-> <<x_start + ((k - 1) \div ny), y_start + ((k - 1) % ny)>>]

\* _build_spatial_grid, read at one cell: the objects filed under it, in the
\* order of `objs` (an object is filed once per cell it touches)
_build_spatial_grid(objs, cell) ==
    LET Touches(i) == \E k \in 1..Len(_cells_for_bbox(_get_bbox(objs[i]))) :
                          _cells_for_bbox(_get_bbox(objs[i]))[k] = cell
        idx == { i \in 1..Len(objs) : Touches(i) }
        F[n \in 0..Len(objs)] ==
            IF n = 0 THEN <<>>
            ELSE IF n \in idx THEN Append(F[n - 1], objs[n]) ELSE F[n - 1]
    IN  F[Len(objs)]

\* the overlap loop (step 3 of check_collisions) inside one cell
CellCollisions(candidate, placed, cell) ==
    LET others == _build_spatial_grid(placed, cell)
        cand_bbox == _get_bbox(candidate)
    IN  SelectSeq(others, LAMBDA other : other # candidate /\ overlaps(cand_bbox, _get_bbox(other)))

\* check_collisions: the exception it ends with, or "return".  Step 1 takes
\* the candidate's bounding box and then the container's size, step 2 asks
\* for the door height only when the candidate is a stack, step 3 files
\* every placed object in the grid by its bounding box.
check_collisions_raises(candidate, placed) ==
    IF _get_bbox_raises(candidate) THEN "ValueError"
    ELSE IF ~ _container_has_size THEN "ValueError"
    ELSE IF _is_stack(candidate) /\ ~ _container_has_door THEN "ValueError"
    ELSE IF \E i \in 1..Len(placed) : _get_bbox_raises(placed[i]) THEN "ValueError"
    ELSE "return"

\* check_collisions: <<ok, collisions>>
check_collisions(candidate, placed) ==
    LET c1 == IF ~ is_within_container(candidate) THEN <<candidate>> ELSE <<>>
        c2 == IF _is_stack(candidate) /\ _exceeds_door_height(candidate)
              THEN <<DOOR_HEIGHT_COLLISION>> ELSE <<>>
        cells == _cells_for_bbox(_get_bbox(candidate))
        c3 == Concat([k \in 1..Len(cells) |-> CellCollisions(candidate, placed, cells[k])])
        collisions == c1 \o c2 \o c3
    IN  <<Len(collisions) = 0, collisions>>

----------------------------------------------------------------------------
(* core/stack.py.  A call's result is a record: outcome is "return" or the *)
(* exception raised, value the value returned, box and stacks the heap the *)
(* call leaves behind.                                                     *)

\* _snap_tolerance answering with its fallback, the number 10
_snap_tolerance_fallback == [type |-> "int", value |-> SNAP_TOLERANCE_MM]

\* _snap_tolerance: getattr(Stack, "SNAP_TOLERANCE_MM", 10) finds the class
\* attribute, so the fallback 10 is not used
_snap_tolerance == Stack_class_SNAP_TOLERANCE_MM

\* _box_center, doubled: Box has no center_x_mm / center_y_mm (its centre is
\* the method center()), so the fallback pos + length/2, pos + width/2 runs
_box_center(b) == <<2 * b.pos_x_mm + b.length_mm, 2 * b.pos_y_mm + b.width_mm>>

\* _dimensions_identical
_dimensions_identical(a, b) ==
    a.length_mm = b.length_mm /\ a.width_mm = b.width_mm /\ a.rot_deg = b.rot_deg

\* _within_snap_tolerance: `abs(acx - bcx) <= tol` raises TypeError unless
\* tol is a number
_within_snap_tolerance(a, b) ==
    LET tol == _snap_tolerance
    IN  IF tol.type # "int"
        THEN [outcome |-> "TypeError", value |-> FALSE]
        ELSE [outcome |-> "return",
              value |-> /\ Abs(_box_center(a)[1] - _box_center(b)[1]) <= 2 * tol.value
                        /\ Abs(_box_center(a)[2] - _box_center(b)[2]) <= 2 * tol.value]

\* _remaining_height_ok
_remaining_height_ok(current_height_mm, next_height_mm, door_height_mm) ==
    current_height_mm + next_height_mm <= door_height_mm

\* can_stack
can_stack(box_a, box_b) ==
    IF ~ _dimensions_identical(box_a, box_b) THEN [outcome |-> "return", value |-> FALSE]
    ELSE IF _within_snap_tolerance(box_a, box_b).outcome # "return"
    THEN [outcome |-> _within_snap_tolerance(box_a, box_b).outcome, value |-> FALSE]
    ELSE IF ~ _within_snap_tolerance(box_a, box_b).value THEN [outcome |-> "return", value |-> FALSE]
    ELSE IF ~ _remaining_height_ok(box_a.height_mm, box_b.height_mm, container.door_height_mm)
    THEN [outcome |-> "return", value |-> FALSE]
    ELSE [outcome |-> "return", value |-> TRUE]

\* the validation loop of create_stack from list index i on: the exception
\* it ends with, or "ok"
RECURSIVE create_stack_validate(_, _)
create_stack_validate(boxes, i) ==
    IF i > Len(boxes) THEN "ok"
    ELSE LET r == can_stack(box[boxes[1]], box[boxes[i]])
         IN  IF r.outcome # "return" THEN r.outcome
             ELSE IF ~ r.value THEN "GeometryError"
             ELSE create_stack_validate(boxes, i + 1)

\* create_stack; `s` is the identity the new Stack object would get
create_stack(boxes, s) ==
    LET unchanged(exc) == [outcome |-> exc, value |-> NoValue, box |-> box, stacks |-> stacks]
        snapped == [b \in BoxIds |->
                       IF b \in Range(boxes)
                       THEN [box[b] EXCEPT !.pos_x_mm = box[boxes[1]].pos_x_mm,
                                           !.pos_y_mm = box[boxes[1]].pos_y_mm]
                       ELSE box[b]]
        made == Stack_init({"name", "boxes", "pos_x_mm", "pos_y_mm", "height_mm"}, boxes)
    IN  IF boxes = <<>> THEN unchanged("GeometryError")
        ELSE IF create_stack_validate(boxes, 2) # "ok" THEN unchanged(create_stack_validate(boxes, 2))
        ELSE IF SumHeights(boxes) > container.door_height_mm THEN unchanged("GeometryError")
        ELSE IF made # "ok"
        THEN [outcome |-> made, value |-> NoValue, box |-> snapped, stacks |-> stacks]
        ELSE [outcome |-> "return", value |-> StackRef(s), box |-> snapped,
              stacks |-> [stacks EXCEPT ![s] = boxes]]

\* add_to_stack: the first statement reads stack.boxes, which no Stack has.
\* (Were there such an attribute, the checks would run against its first
\* box and the function would end assigning to the read-only height_mm.)
add_to_stack(s, b) ==
    LET raised(exc) == [outcome |-> exc, value |-> NoValue, box |-> box, stacks |-> stacks]
        reference_box == box[Head(stacks[s])]
    IN  IF "boxes" \notin Stack_attributes THEN raised("AttributeError")
        ELSE IF ~ _dimensions_identical(reference_box, box[b]) THEN raised("GeometryError")
        ELSE IF _within_snap_tolerance(reference_box, box[b]).outcome # "return"
        THEN raised(_within_snap_tolerance(reference_box, box[b]).outcome)
        ELSE IF ~ _within_snap_tolerance(reference_box, box[b]).value THEN raised("GeometryError")
        ELSE IF ~ _remaining_height_ok(Stack_height_mm(s), box[b].height_mm, container.door_height_mm)
        THEN raised("GeometryError")
        ELSE [outcome |-> "AttributeError", value |-> NoValue,
              box |-> [box EXCEPT ![b].pos_x_mm = Stack_pos_x_mm(s), ![b].pos_y_mm = Stack_pos_y_mm(s)],
              stacks |-> [stacks EXCEPT ![s] = Append(@, b)]]

----------------------------------------------------------------------------
(* Actions                                                                 *)

NoCall == [op |-> "none"]

\* the heap, as a call finds it
Heap == [box |-> box, stacks |-> stacks]

\* A call that left the heap as it found it is the end of a run: whatever
\* could follow it could follow the state before it.
CanCall == IF ret.op = "none" THEN TRUE ELSE ret.pre # Heap

\* no project, no thread, no file, no canvas and no table row
Idle ==
    /\ project = [boxes |-> <<>>]
    /\ lock = [owner |-> 0, count |-> 0]
    /\ thread = <<>>
    /\ files = <<>>
    /\ canvases = <<>>
    /\ table = [rows |-> <<>>, invalid |-> {}]

\* Stack(name, _boxes=bs): the object exists only if __post_init__ passes
StackNew(s, bs) ==
    /\ CanCall
    /\ UNCHANGED elsewhere
    /\ stacks[s] = <<>>
    /\ \E r \in { Stack_init({"name", "_boxes"}, bs) } :
           IF r = "ok"
           THEN /\ stacks' = [stacks EXCEPT ![s] = bs]
                /\ ret' = [op |-> "Stack", boxes |-> bs, pre |-> Heap,
                           outcome |-> "return", value |-> StackRef(s)]
           ELSE /\ UNCHANGED stacks
                /\ ret' = [op |-> "Stack", boxes |-> bs, pre |-> Heap,
                           outcome |-> r, value |-> NoValue]
    /\ UNCHANGED <<box, container>>

CheckCollisions(candidate, placed) ==
    /\ CanCall
    /\ UNCHANGED elsewhere
    /\ \E e \in { check_collisions_raises(candidate, placed) } :
           IF e # "return"
           THEN ret' = [op |-> "check_collisions", candidate |-> candidate, placed |-> placed,
                        pre |-> Heap, outcome |-> e]
           ELSE \E r \in { check_collisions(candidate, placed) } :
                    ret' = [op |-> "check_collisions", candidate |-> candidate, placed |-> placed,
                            pre |-> Heap, outcome |-> "return", ok |-> r[1], collisions |-> r[2]]
    /\ UNCHANGED <<box, stacks, container>>

CanStack(a, b) ==
    /\ CanCall
    /\ UNCHANGED elsewhere
    /\ \E r \in { can_stack(box[a], box[b]) } :
           ret' = [op |-> "can_stack", box_a |-> a, box_b |-> b, pre |-> Heap,
                   outcome |-> r.outcome, value |-> r.value]
    /\ UNCHANGED <<box, stacks, container>>

CreateStack(bs, s) ==
    /\ CanCall
    /\ UNCHANGED elsewhere
    /\ stacks[s] = <<>>
    /\ \E r \in { create_stack(bs, s) } :
           /\ box' = r.box
           /\ stacks' = r.stacks
           /\ ret' = [op |-> "create_stack", boxes |-> bs, pre |-> Heap,
                      outcome |-> r.outcome, value |-> r.value]
    /\ UNCHANGED container

AddToStack(s, b) ==
    /\ CanCall
    /\ UNCHANGED elsewhere
    /\ stacks[s] # <<>>
    /\ \E r \in { add_to_stack(s, b) } :
           /\ box' = r.box
           /\ stacks' = r.stacks
           /\ ret' = [op |-> "add_to_stack", stack |-> StackRef(s), box |-> b, pre |-> Heap,
                      outcome |-> r.outcome, value |-> r.value]
    /\ UNCHANGED container

\* stack.add_box(box)
StackAddBox(s, b) ==
    /\ CanCall
    /\ UNCHANGED elsewhere
    /\ stacks[s] # <<>>
    /\ \E r \in { Stack_add_box(s, b) } :
           /\ box' = r.box
           /\ stacks' = r.stacks
           /\ ret' = [op |-> "Stack.add_box", stack |-> StackRef(s), box |-> b, pre |-> Heap,
                      outcome |-> r.outcome, value |-> NoValue]
    /\ UNCHANGED container

\* stack.rotate()
StackRotate(s) ==
    /\ CanCall
    /\ UNCHANGED elsewhere
    /\ stacks[s] # <<>>
    /\ box' = Stack_rotate(s)
    /\ ret' = [op |-> "Stack.rotate", stack |-> StackRef(s), pre |-> Heap,
               outcome |-> "return", value |-> NoValue]
    /\ UNCHANGED <<stacks, container>>

\* box.rotate()
BoxRotate(b) ==
    /\ CanCall
    /\ UNCHANGED elsewhere
    /\ box' = [box EXCEPT ![b] = Box_rotate(@)]
    /\ ret' = [op |-> "Box.rotate", box |-> b, pre |-> Heap, outcome |-> "return", value |-> NoValue]
    /\ UNCHANGED <<stacks, container>>

\* box_a == box_b, with hash(box_a) and hash(box_b)
BoxEq(a, b) ==
    /\ CanCall
    /\ UNCHANGED elsewhere
    /\ ret' = [op |-> "Box.__eq__", box_a |-> a, box_b |-> b, pre |-> Heap, outcome |-> "return",
               value |-> Box_eq(box[a], box[b]),
               hash_a |-> Box_hash(box[a]), hash_b |-> Box_hash(box[b])]
    /\ UNCHANGED <<box, stacks, container>>

\* is_within_container(obj, container)
IsWithinContainer(obj) ==
    /\ CanCall
    /\ UNCHANGED elsewhere
    /\ ret' = [op |-> "is_within_container", obj |-> obj, pre |-> Heap, outcome |-> "return",
               value |-> is_within_container(obj)]
    /\ UNCHANGED <<box, stacks, container>>

\* overlaps(a, b) and overlaps(b, a) on the bounding boxes of two items
Overlaps(a, b) ==
    /\ CanCall
    /\ UNCHANGED elsewhere
    /\ ret' = [op |-> "overlaps", a |-> _get_bbox(a), b |-> _get_bbox(b), pre |-> Heap,
               outcome |-> "return",
               value |-> overlaps(_get_bbox(a), _get_bbox(b)),
               swapped |-> overlaps(_get_bbox(b), _get_bbox(a))]
    /\ UNCHANGED <<box, stacks, container>>

----------------------------------------------------------------------------
(* Specification of the collision engine                                   *)

InitCollision ==
    /\ box \in [BoxIds -> { [length_mm |-> sh[1], width_mm |-> sh[2], height_mm |-> h,
                             pos_x_mm |-> p[1], pos_y_mm |-> p[2], rot_deg |-> p[3]] :
                            sh \in CollisionShapes, h \in CollisionHeights,
                            p \in CollisionPlacements }]
    /\ stacks = [s \in StackIds |-> <<>>]
    /\ container \in CollisionContainers
    /\ ret = NoCall
    /\ Idle

NextCollision ==
    \/ \E s \in StackIds, bs \in AscSeqs(BoxIds, MaxStackLen) : StackNew(s, bs)
    \/ \E candidate \in Items, placed \in InjSeqs(Items, MaxPlaced) : CheckCollisions(candidate, placed)

SpecCollision == InitCollision /\ [][NextCollision]_vars

----------------------------------------------------------------------------
(* Specification of the stacking engine                                    *)

InitStack ==
    /\ box \in [BoxIds -> StackVariants]
    /\ stacks = [s \in StackIds |-> <<>>]
    /\ container = StackContainer
    /\ ret = NoCall
    /\ Idle

NextStack ==
    \/ \E s \in StackIds, bs \in InjSeqs(BoxIds, MaxStackLen) : StackNew(s, bs)
    \/ \E a, b \in BoxIds : a # b /\ CanStack(a, b)
    \/ \E s \in StackIds, bs \in InjSeqs(BoxIds, MaxStackLen) : CreateStack(bs, s)
    \/ \E s \in StackIds : \E b \in BoxIds \ Range(stacks[s]) : AddToStack(s, b)
    \/ \E s \in StackIds : \E b \in BoxIds \ Range(stacks[s]) : StackAddBox(s, b)
    \/ \E s \in StackIds : StackRotate(s)

SpecStack == InitStack /\ [][NextStack]_vars

----------------------------------------------------------------------------
(* Specification of the geometry of single boxes                           *)

InitBox ==
    /\ box \in [BoxIds -> { [length_mm |-> g[1], width_mm |-> g[2], height_mm |-> g[3],
                             pos_x_mm |-> g[4], pos_y_mm |-> g[5], rot_deg |-> g[6]] :
                            g \in GeometryBoxes }]
    /\ stacks = [s \in StackIds |-> <<>>]
    /\ container = GeometryContainer
    /\ ret = NoCall
    /\ Idle

NextBox ==
    \/ \E b \in BoxIds : BoxRotate(b)
    \/ \E a, b \in BoxIds : BoxEq(a, b)
    \/ \E obj \in Items : IsWithinContainer(obj)
    \/ \E a, b \in Items : Overlaps(a, b)

SpecBox == InitBox /\ [][NextBox]_vars

----------------------------------------------------------------------------
(* Specification of check_collisions on incomplete containers and foreign  *)
(* objects                                                                 *)

InitConfig ==
    /\ box \in [BoxIds -> { [length_mm |-> g[1], width_mm |-> g[2], height_mm |-> g[3],
                             pos_x_mm |-> g[4], pos_y_mm |-> g[5], rot_deg |-> g[6]] :
                            g \in ConfigBoxes }]
    /\ stacks = [s \in StackIds |-> <<>>]
    /\ container \in ConfigContainers
    /\ ret = NoCall
    /\ Idle

NextConfig ==
    \/ \E s \in StackIds, bs \in AscSeqs(BoxIds, MaxStackLen) : StackNew(s, bs)
    \/ \E candidate \in Items \cup ForeignItems, placed \in InjSeqs(Items \cup ForeignItems, MaxPlaced) :
           CheckCollisions(candidate, placed)

SpecConfig == InitConfig /\ [][NextConfig]_vars

----------------------------------------------------------------------------
(* Claims about the collision engine (SpecCollision)                       *)

IsCheck == ret.op = "check_collisions"

\* two rectangles intersect with positive extent on both axes
Intersect(a, b) == a[1] < b[3] /\ b[1] < a[3] /\ a[2] < b[4] /\ b[2] < a[4]

\* the item's bounding box lies in [0, inner_length] x [0, inner_width]
Inside(it) ==
    /\ _get_bbox(it)[1] >= 0 /\ _get_bbox(it)[2] >= 0
    /\ _get_bbox(it)[3] <= container.inner_length_mm
    /\ _get_bbox(it)[4] <= container.inner_width_mm

\* the item is a stack whose member heights sum to more than the door height
OverDoor(it) == it.kind = "stack" /\ SumHeights(stacks[it.id]) > container.door_height_mm

\* the placed items, other than the candidate itself, that overlap it
DirectOffenders(candidate, placed) ==
    { o \in Range(placed) : o # candidate /\ Intersect(_get_bbox(candidate), _get_bbox(o)) }

\* number of grid cells two bounding boxes have in common
SharedCells(a, b) == Cardinality(Range(_cells_for_bbox(a)) \cap Range(_cells_for_bbox(b)))

\* C1: check_collisions returns ok = true iff the candidate is within the
\* container, is not a stack whose total height exceeds the door height and
\* overlaps no placed item other than itself; and ok is true exactly when
\* the offenders list is empty.
C1_OkIffNoViolation ==
    IsCheck =>
        /\ ret.ok <=> ( /\ Inside(ret.candidate)
                        /\ ~ OverDoor(ret.candidate)
                        /\ DirectOffenders(ret.candidate, ret.placed) = {} )
        /\ ret.ok <=> (ret.collisions = <<>>)

\* C2: the door-height sentinel is among the offenders iff the candidate is
\* a stack whose total height (the sum of its members' heights) exceeds the
\* door height.
C2_SentinelIffStackOverDoor ==
    IsCheck => ( (DOOR_HEIGHT_COLLISION \in Range(ret.collisions)) <=> OverDoor(ret.candidate) )

\* C3: the placed items reported as offenders are exactly the placed items,
\* other than the candidate itself, whose bounding box overlaps the
\* candidate's: the grid hides none and adds none.
C3_GridEqualsDirect ==
    IsCheck =>
        (Range(ret.collisions) \ {ret.candidate, DOOR_HEIGHT_COLLISION})
            = DirectOffenders(ret.candidate, ret.placed)

\* C3 witness: a candidate with a negative coordinate, checked against an
\* overlapping item that spans several cells (reported) and an item that
\* shares a cell with it without overlapping (not reported).
C3_Witness ==
    /\ IsCheck
    /\ _get_bbox(ret.candidate)[1] < 0
    /\ \E o1, o2 \in Range(ret.placed) :
           /\ o1 # ret.candidate /\ o2 # ret.candidate
           /\ Intersect(_get_bbox(ret.candidate), _get_bbox(o1))
           /\ Len(_cells_for_bbox(_get_bbox(o1))) > 1
           /\ o1 \in Range(ret.collisions)
           /\ ~ Intersect(_get_bbox(ret.candidate), _get_bbox(o2))
           /\ SharedCells(_get_bbox(ret.candidate), _get_bbox(o2)) > 0
           /\ o2 \notin Range(ret.collisions)

\* C4: every placed item that overlaps the candidate is in the offenders
\* list exactly once, also when the two share more than one grid cell.
C4_OffenderListedOnce ==
    IsCheck =>
        \A o \in DirectOffenders(ret.candidate, ret.placed) : Count(ret.collisions, o) = 1

\* C5: no early exit: the candidate itself is listed iff it is out of
\* bounds, and the list is the boundary violation, then the door-height
\* sentinel of a stack over the door height, then the overlapping items.
C5_AllChecksInOrder ==
    IsCheck =>
        LET b == IF Inside(ret.candidate) THEN 0 ELSE 1
            d == IF OverDoor(ret.candidate) THEN 1 ELSE 0
            n == Len(ret.collisions)
        IN  /\ (ret.candidate \in Range(ret.collisions)) <=> ~ Inside(ret.candidate)
            /\ n >= b + d
            /\ b = 1 => ret.collisions[1] = ret.candidate
            /\ d = 1 => ret.collisions[b + 1] = DOOR_HEIGHT_COLLISION
            /\ Range(SubSeq(ret.collisions, b + d + 1, n))
                   = DirectOffenders(ret.candidate, ret.placed)

----------------------------------------------------------------------------
(* Claims about the stacking engine (SpecStack)                            *)

\* twice the centre of a box's bounding box
Centre2(b) == <<Box_bbox(b)[1] + Box_bbox(b)[3], Box_bbox(b)[2] + Box_bbox(b)[4]>>

SameFootprint(a, b) ==
    a.length_mm = b.length_mm /\ a.width_mm = b.width_mm /\ a.rot_deg = b.rot_deg

\* the centres differ by at most the snap tolerance on each axis
CentresSnap(a, b) ==
    /\ Abs(Centre2(a)[1] - Centre2(b)[1]) <= 2 * SNAP_TOLERANCE_MM
    /\ Abs(Centre2(a)[2] - Centre2(b)[2]) <= 2 * SNAP_TOLERANCE_MM

\* the three conditions of can_stack
Stackable(a, b) ==
    /\ SameFootprint(a, b)
    /\ CentresSnap(a, b)
    /\ a.height_mm + b.height_mm <= container.door_height_mm

\* C6: can_stack(box_a, box_b, container) is true iff the boxes have the
\* same length, width and rotation, their centres are within 10 mm on each
\* axis and their heights sum to at most the door height.
C6_CanStackIff ==
    ret.op = "can_stack" =>
        /\ ret.outcome = "return"
        /\ ret.value <=> Stackable(box[ret.box_a], box[ret.box_b])

\* the box list satisfies what create_stack requires
CreatePre ==
    /\ ret.boxes # <<>>
    /\ \A i \in 2..Len(ret.boxes) :
           Stackable(ret.pre.box[ret.boxes[1]], ret.pre.box[ret.boxes[i]])
    /\ SumHeightsIn(ret.pre.box, ret.boxes) <= container.door_height_mm

\* C7: create_stack on a non-empty list whose boxes are all stackable with
\* the first and sum to at most the door height returns a Stack holding
\* exactly those boxes in order at the first box's position, and every input
\* box then has the first box's position.
C7_CreateStackBuilds ==
    (ret.op = "create_stack" /\ CreatePre) =>
        /\ ret.outcome = "return"
        /\ ret.value.kind = "stack"
        /\ stacks[ret.value.id] = ret.boxes
        /\ Stack_box_count(ret.value.id) = Len(ret.boxes)
        /\ SumHeights(stacks[ret.value.id]) = SumHeightsIn(ret.pre.box, ret.boxes)
        /\ Stack_pos_x_mm(ret.value.id) = ret.pre.box[ret.boxes[1]].pos_x_mm
        /\ Stack_pos_y_mm(ret.value.id) = ret.pre.box[ret.boxes[1]].pos_y_mm
        /\ \A i \in 1..Len(ret.boxes) :
               /\ box[ret.boxes[i]].pos_x_mm = ret.pre.box[ret.boxes[1]].pos_x_mm
               /\ box[ret.boxes[i]].pos_y_mm = ret.pre.box[ret.boxes[1]].pos_y_mm

\* C8: create_stack fails with a GeometryError when the list is empty, when
\* a box from the second onward is not stackable with the first, or when
\* the summed height exceeds the door height.
C8_CreateStackRejects ==
    (ret.op = "create_stack" /\ ~ CreatePre) => ret.outcome = "GeometryError"

\* the box fits the stack as add_to_stack requires: the footprint and
\* rotation of the stack's first box, a centre within the snap tolerance of
\* it, and room under the door for its height on top of the stack's
AddFootprint == SameFootprint(ret.pre.box[Head(ret.pre.stacks[ret.stack.id])], ret.pre.box[ret.box])
AddSnap == CentresSnap(ret.pre.box[Head(ret.pre.stacks[ret.stack.id])], ret.pre.box[ret.box])
AddRoom ==
    SumHeightsIn(ret.pre.box, ret.pre.stacks[ret.stack.id]) + ret.pre.box[ret.box].height_mm
        <= container.door_height_mm

\* C9: add_to_stack of a box that fits returns the stack it was given, with
\* one box more, the box last, the total height raised by the box's height
\* and the box at the stack's position.
C9_AddToStackExtends ==
    (ret.op = "add_to_stack" /\ AddFootprint /\ AddSnap /\ AddRoom) =>
        /\ ret.outcome = "return"
        /\ ret.value = ret.stack
        /\ Len(stacks[ret.stack.id]) = Len(ret.pre.stacks[ret.stack.id]) + 1
        /\ stacks[ret.stack.id][Len(stacks[ret.stack.id])] = ret.box
        /\ SumHeights(stacks[ret.stack.id])
               = SumHeightsIn(ret.pre.box, ret.pre.stacks[ret.stack.id]) + ret.pre.box[ret.box].height_mm
        /\ box[ret.box].pos_x_mm = Stack_pos_x_mm(ret.stack.id)
        /\ box[ret.box].pos_y_mm = Stack_pos_y_mm(ret.stack.id)

\* C10: add_to_stack fails with a GeometryError when the box differs from
\* the stack's first box in length, width or rotation, when its centre is
\* beyond the snap tolerance on either axis, or when the stack's height
\* plus the box's height exceeds the door height.
C10_AddToStackRejects ==
    (ret.op = "add_to_stack" /\ ~ (AddFootprint /\ AddSnap /\ AddRoom)) =>
        ret.outcome = "GeometryError"

----------------------------------------------------------------------------
(* Claims about Stack objects (SpecStack)                                  *)

\* the Stack objects that exist
Constructed == { s \in StackIds : stacks[s] # <<>> }

\* every box of the list has the footprint and rotation of the first, in
\* the heap hp
Uniform(hp, bs) ==
    \A i \in 1..Len(bs) : SameFootprint(hp[bs[1]], hp[bs[i]])

C13_TotalHeightIsSum ==
    \A s \in Constructed : Stack_total_height_mm(s) = SumHeights(stacks[s])

\* the footprint of a box as a rectangle: (x, y, x+L, y+W) at 0 degrees,
\* (x, y, x+W, y+L) at 90
Rect(b) ==
    <<b.pos_x_mm, b.pos_y_mm,
      b.pos_x_mm + (IF b.rot_deg = 90 THEN b.width_mm ELSE b.length_mm),
      b.pos_y_mm + (IF b.rot_deg = 90 THEN b.length_mm ELSE b.width_mm)>>

\* C14: bbox() of every Stack is the rectangle of its footprint at its
\* position and equals bbox() of its first box, at 0 and at 90 degrees; after
\* Stack.rotate its x-extent is the y-extent it had before and vice versa.
C14_StackBBoxIsFirstBoxBBox ==
    /\ \A s \in Constructed :
           /\ Stack_bbox(s) = Rect(Stack_first(s))
           /\ Stack_bbox(s) = Box_bbox(Stack_first(s))
    /\ ret.op = "Stack.rotate" =>
           LET now == Stack_bbox(ret.stack.id)
               was == Rect(ret.pre.box[Head(stacks[ret.stack.id])])
           IN  /\ now[3] - now[1] = was[4] - was[2]
               /\ now[4] - now[2] = was[3] - was[1]

\* C19: a Stack has at least one box in every state: the constructor
\* rejects an empty list, a Stack that a call returns has members, and no
\* call on a Stack shortens it.
C19_StackNeverEmpty ==
    /\ (ret.op = "Stack" /\ ret.boxes = <<>>) =>
           (ret.outcome = "ValidationError" /\ stacks = ret.pre.stacks)
    /\ (ret.op \in {"Stack", "create_stack"} /\ ret.outcome = "return") =>
           Len(stacks[ret.value.id]) >= 1
    /\ ret.op \in {"Stack.add_box", "Stack.rotate", "add_to_stack"} =>
           /\ Len(ret.pre.stacks[ret.stack.id]) >= 1
           /\ Len(stacks[ret.stack.id]) >= Len(ret.pre.stacks[ret.stack.id])

\* C19 witness: the constructor has rejected an empty list.
C19_Witness ==
    ret.op = "Stack" /\ ret.boxes = <<>> /\ ret.outcome = "ValidationError"

----------------------------------------------------------------------------
(* Claims about single boxes and the geometric predicates (SpecBox)        *)

\* C15 (in every state): bbox() of a Box is (x, y, x+L, y+W) at 0 degrees
\* and (x, y, x+W, y+L) at 90; Box.rotate has toggled rot_deg between 0 and
\* 90, swapped the extents of the bounding box and changed nothing else.
BoxRotateToggles ==
    /\ \A b \in BoxIds : Box_bbox(box[b]) = Rect(box[b])
    /\ ret.op = "Box.rotate" =>
           LET now == box[ret.box]
               was == ret.pre.box[ret.box]
           IN  /\ now.rot_deg = (IF was.rot_deg = 0 THEN 90 ELSE 0)
               /\ now = [was EXCEPT !.rot_deg = now.rot_deg]
               /\ \A o \in BoxIds \ {ret.box} : box[o] = ret.pre.box[o]
               /\ stacks = ret.pre.stacks
               /\ Box_bbox(now)[3] - Box_bbox(now)[1] = Box_bbox(was)[4] - Box_bbox(was)[2]
               /\ Box_bbox(now)[4] - Box_bbox(now)[2] = Box_bbox(was)[3] - Box_bbox(was)[1]

\* C15 (over two calls): a second rotate() of the same box restores the box
\* and its bounding box as they were before the first.
BoxRotateTwice ==
    (ret.op = "Box.rotate" /\ ret'.op = "Box.rotate" /\ ret'.box = ret.box) =>
        /\ box'[ret.box] = ret.pre.box[ret.box]
        /\ Box_bbox(box'[ret.box]) = Box_bbox(ret.pre.box[ret.box])

\* C15: Box.bbox follows rot_deg, Box.rotate toggles rot_deg and nothing
\* else, and rotating twice restores the original bounding box.
C15_BoxBBoxAndRotate == [] BoxRotateToggles /\ [][BoxRotateTwice]_vars

\* C15 witness: the 600 x 400 box that starts unrotated at (500, 0) is back
\* at 0 degrees after a rotate(), having been at 90.
C15_Witness ==
    /\ ret.op = "Box.rotate"
    /\ box[ret.box].length_mm = 600 /\ box[ret.box].pos_x_mm = 500
    /\ ret.pre.box[ret.box].rot_deg = 90 /\ box[ret.box].rot_deg = 0
    /\ Box_bbox(box[ret.box]) = <<500, 0, 1100, 400>>

\* C16: is_within_container is true iff the item's bounding box lies in
\* [0, inner_length] x [0, inner_width], walls included.
C16_WithinIffInsideWalls ==
    ret.op = "is_within_container" => (ret.value <=> Inside(ret.obj))

\* C16 witness: a box that fills the container exactly is inside.
C16_Witness ==
    /\ ret.op = "is_within_container"
    /\ _get_bbox(ret.obj) = <<0, 0, container.inner_length_mm, container.inner_width_mm>>
    /\ ret.value

\* C17: overlaps(a, b) = overlaps(b, a), and it is true exactly when the
\* rectangles intersect with positive extent on both axes.
C17_OverlapsSymmetricStrict ==
    ret.op = "overlaps" =>
        /\ ret.value = ret.swapped
        /\ ret.value <=> Intersect(ret.a, ret.b)

\* C17 witness: [0,0,10,10] and [10,0,20,10] share an edge and do not
\* overlap.
C17_Witness ==
    /\ ret.op = "overlaps"
    /\ ret.a = <<0, 0, 10, 10>> /\ ret.b = <<10, 0, 20, 10>>
    /\ ~ ret.value /\ ~ ret.swapped

\* C18: two boxes compare equal iff their length_mm and width_mm coincide,
\* equal boxes have equal hashes, and the relation is reflexive, symmetric
\* and transitive.
C18_BoxEqByFootprint ==
    /\ ret.op = "Box.__eq__" =>
           /\ ret.value <=> ( /\ box[ret.box_a].length_mm = box[ret.box_b].length_mm
                              /\ box[ret.box_a].width_mm = box[ret.box_b].width_mm )
           /\ ret.value => ret.hash_a = ret.hash_b
    /\ \A a, b, c \in BoxIds :
           /\ Box_eq(box[a], box[a])
           /\ Box_eq(box[a], box[b]) => Box_eq(box[b], box[a])
           /\ (Box_eq(box[a], box[b]) /\ Box_eq(box[b], box[c])) => Box_eq(box[a], box[c])

\* C18 witness: two boxes of one footprint that differ in height, position
\* and rotation compare equal.
C18_Witness ==
    /\ ret.op = "Box.__eq__" /\ ret.value
    /\ box[ret.box_a].height_mm # box[ret.box_b].height_mm
    /\ box[ret.box_a].pos_y_mm # box[ret.box_b].pos_y_mm
    /\ box[ret.box_a].rot_deg # box[ret.box_b].rot_deg

----------------------------------------------------------------------------
(* Claims about configuration errors (SpecConfig)                          *)

\* the container has its inner length, inner width and door height
ContainerComplete ==
    {"inner_length_mm", "inner_width_mm", "door_height_mm"} \subseteq DOMAIN container

\* the item has a bbox() accessor (Box, Stack) or the raw fields x, y, a
\* length and a width
WellFormedItem(it) ==
    IF it.kind \in {"box", "stack"} THEN TRUE
    ELSE /\ {"x", "y"} \subseteq Attributes(it)
         /\ {"length", "length_mm"} \cap Attributes(it) # {}
         /\ {"width", "width_mm"} \cap Attributes(it) # {}

\* C20: check_collisions raises ValueError whenever the container lacks its
\* inner length, inner width or door height, whatever the candidate, or the
\* candidate or a placed item has neither bbox() nor the raw fields; on
\* well-formed input it returns an (ok, offenders) pair.
C20_ConfigurationErrors ==
    IsCheck =>
        IF /\ ContainerComplete
           /\ \A it \in {ret.candidate} \cup Range(ret.placed) : WellFormedItem(it)
        THEN /\ ret.outcome = "return"
             /\ ret.ok \in BOOLEAN
             /\ ret.collisions \in Seq(Items \cup ForeignItems \cup {DOOR_HEIGHT_COLLISION})
        ELSE ret.outcome = "ValueError"

----------------------------------------------------------------------------
(* Further claims about the stacking engine and Stack objects (SpecStack)  *)

\* C27: when create_stack or add_to_stack ends with an exception, every box
\* has the position it had before the call and every stack the members and
\* the height it had before.
C27_FailedStackingChangesNothing ==
    (ret.op \in {"create_stack", "add_to_stack"} /\ ret.outcome # "return") =>
        /\ \A b \in BoxIds :
               /\ box[b].pos_x_mm = ret.pre.box[b].pos_x_mm
               /\ box[b].pos_y_mm = ret.pre.box[b].pos_y_mm
        /\ stacks = ret.pre.stacks
        /\ \A s \in Constructed :
               SumHeights(stacks[s]) = SumHeightsIn(ret.pre.box, ret.pre.stacks[s])

\* C27 witness: create_stack has failed on two boxes of one footprint that
\* lie at different positions within the snap tolerance.
C27_Witness ==
    /\ ret.op = "create_stack" /\ ret.outcome # "return"
    /\ Len(ret.boxes) >= 2
    /\ SameFootprint(ret.pre.box[ret.boxes[1]], ret.pre.box[ret.boxes[2]])
    /\ CentresSnap(ret.pre.box[ret.boxes[1]], ret.pre.box[ret.boxes[2]])
    /\ ret.pre.box[ret.boxes[1]].pos_x_mm # ret.pre.box[ret.boxes[2]].pos_x_mm

\* C28: in every Stack all member boxes have the position of the first
\* member.
C28_MembersAtStackPosition ==
    \A s \in Constructed : \A i \in 1..Len(stacks[s]) :
        /\ box[stacks[s][i]].pos_x_mm = Stack_pos_x_mm(s)
        /\ box[stacks[s][i]].pos_y_mm = Stack_pos_y_mm(s)

----------------------------------------------------------------------------
(* core/models.py: Project, its item list and its reentrant lock           *)

ThreadIds == {1, 2}

\* the boxes of a project: two of one footprint that differ in height and
\* weight, and one of another footprint
ProjectBase ==
    [length_mm |-> 400, width_mm |-> 400, height_mm |-> 100, weight_kg |-> 5,
     pos_x_mm |-> 0, pos_y_mm |-> 0, rot_deg |-> 0]
ProjectVariants ==
    { ProjectBase,
      [ProjectBase EXCEPT !.height_mm = 200, !.weight_kg = 7],
      [ProjectBase EXCEPT !.length_mm = 500, !.weight_kg = 9] }

\* the longest list a project starts with
MaxProjectLen == 2

ProjectItems == { BoxRef(i) : i \in BoxIds }

Readers == {"total_weight_kg", "max_height_mm", "to_dict"}
Writers == {"add", "remove"}

\* a lock that its owner cannot take a second time
Lock_acquirable(t) == lock.count = 0

\* threading.RLock: free, or held by the calling thread
RLock_acquirable(t) == lock.count = 0 \/ lock.owner = t

RLock_acquire(t) == [owner |-> t, count |-> lock.count + 1]

RLock_release ==
    IF lock.count = 1 THEN [owner |-> 0, count |-> 0] ELSE [lock EXCEPT !.count = @ - 1]

\* x == y as list.remove evaluates it: the same object, or __eq__
Item_eq(x, y) ==
    \/ x = y
    \/ x.kind = "box" /\ y.kind = "box" /\ Box_eq(box[x.id], box[y.id])

\* the list without its element at index i
RemoveAt(xs, i) == SubSeq(xs, 1, i - 1) \o SubSeq(xs, i + 1, Len(xs))

\* Stack.total_weight_kg over the member list bs
RECURSIVE Stack_total_weight_kg(_)
Stack_total_weight_kg(bs) ==
    IF bs = <<>> THEN 0 ELSE box[Head(bs)].weight_kg + Stack_total_weight_kg(Tail(bs))

Item_weight_kg(x) ==
    IF x.kind = "box" THEN box[x.id].weight_kg ELSE Stack_total_weight_kg(stacks[x.id])

Item_height_mm(x) == IF x.kind = "box" THEN box[x.id].height_mm ELSE Stack_total_height_mm(x.id)

RECURSIVE SumWeights(_)
SumWeights(xs) == IF xs = <<>> THEN 0 ELSE Item_weight_kg(Head(xs)) + SumWeights(Tail(xs))

RECURSIVE MaxHeight(_)
MaxHeight(xs) ==
    IF xs = <<>> THEN 0
    ELSE LET h == Item_height_mm(Head(xs))
             r == MaxHeight(Tail(xs))
         IN  IF h > r THEN h ELSE r

\* what a reader returns from the items its loop has visited
Project_result(op, seen) ==
    CASE op = "total_weight_kg" -> SumWeights(seen)
      [] op = "max_height_mm" -> MaxHeight(seen)
      [] op = "to_dict" -> seen
      [] OTHER -> NoValue

NotStarted ==
    [pc |-> "start", op |-> "none", item |-> NoValue, outer |-> FALSE,
     i |-> 0, seen |-> <<>>, pre |-> <<>>, outcome |-> "none"]

\* thread t calls project.<op>(item); with `outer` the call stands inside the
\* caller's own `with project._lock:`
ThreadCall(t, op, item, outer) ==
    /\ thread[t].pc = "start"
    /\ outer => RLock_acquirable(t)
    /\ lock' = IF outer THEN RLock_acquire(t) ELSE lock
    /\ thread' = [thread EXCEPT ![t] = [NotStarted EXCEPT !.pc = "enter", !.op = op,
                                                          !.item = item, !.outer = outer]]
    /\ UNCHANGED <<box, stacks, container, ret, project, files, canvases, table>>

\* `with self._lock:` on entry
ProjectEnter(t) ==
    /\ thread[t].pc = "enter"
    /\ RLock_acquirable(t)
    /\ lock' = RLock_acquire(t)
    /\ thread' = [thread EXCEPT ![t].pc = "body", ![t].i = 1, ![t].pre = project.boxes]
    /\ UNCHANGED <<box, stacks, container, ret, project, files, canvases, table>>

\* Project.add: self.boxes.append(item)
ProjectAdd(t) ==
    /\ thread[t].pc = "body" /\ thread[t].op = "add"
    /\ project' = [project EXCEPT !.boxes = Append(@, thread[t].item)]
    /\ thread' = [thread EXCEPT ![t].pc = "exit", ![t].outcome = "return"]
    /\ UNCHANGED <<box, stacks, container, ret, lock, files, canvases, table>>

\* Project.remove: self.boxes.remove(item) compares the elements in turn,
\* deletes the first that is equal and raises ValueError when none is
ProjectRemove(t) ==
    /\ thread[t].pc = "body" /\ thread[t].op = "remove"
    /\ LET i == thread[t].i IN
       IF i > Len(project.boxes)
       THEN /\ thread' = [thread EXCEPT ![t].pc = "exit", ![t].outcome = "ValueError"]
            /\ UNCHANGED project
       ELSE IF Item_eq(project.boxes[i], thread[t].item)
       THEN /\ project' = [project EXCEPT !.boxes = RemoveAt(@, i)]
            /\ thread' = [thread EXCEPT ![t].pc = "exit", ![t].outcome = "return"]
       ELSE /\ thread' = [thread EXCEPT ![t].i = i + 1]
            /\ UNCHANGED project
    /\ UNCHANGED <<box, stacks, container, ret, lock, files, canvases, table>>

\* total_weight_kg, max_height_mm, to_dict: one step of the loop over
\* self.boxes
ProjectRead(t) ==
    /\ thread[t].pc = "body" /\ thread[t].op \in Readers
    /\ LET i == thread[t].i IN
       IF i > Len(project.boxes)
       THEN thread' = [thread EXCEPT ![t].pc = "exit", ![t].outcome = "return"]
       ELSE thread' = [thread EXCEPT ![t].i = i + 1, ![t].seen = Append(@, project.boxes[i])]
    /\ UNCHANGED <<box, stacks, container, ret, project, lock, files, canvases, table>>

\* `with self._lock:` on exit, by return or by exception
ProjectExit(t) ==
    /\ thread[t].pc = "exit"
    /\ lock' = RLock_release
    /\ ret' = [op |-> thread[t].op, item |-> thread[t].item, thread |-> t,
               pre |-> thread[t].pre, post |-> project.boxes,
               outcome |-> thread[t].outcome,
               value |-> Project_result(thread[t].op, thread[t].seen)]
    /\ thread' = [thread EXCEPT ![t].pc = IF thread[t].outer THEN "endwith" ELSE "done"]
    /\ UNCHANGED <<box, stacks, container, project, files, canvases, table>>

\* the end of the caller's own `with project._lock:`
ThreadEndWith(t) ==
    /\ thread[t].pc = "endwith"
    /\ lock' = RLock_release
    /\ thread' = [thread EXCEPT ![t].pc = "done"]
    /\ UNCHANGED <<box, stacks, container, ret, project, files, canvases, table>>

InitProject ==
    /\ box \in { f \in [BoxIds -> ProjectVariants] : f[1] = ProjectBase /\ f[2] # f[1] /\ f[3] # f[1] }
    /\ stacks = [s \in StackIds |-> <<>>]
    /\ container = StackContainer
    /\ ret = NoCall
    /\ project \in { [boxes |-> xs] : xs \in InjSeqs(ProjectItems, MaxProjectLen) }
    /\ lock = [owner |-> 0, count |-> 0]
    /\ thread = [t \in ThreadIds |-> NotStarted]
    /\ files = <<>>
    /\ canvases = <<>>
    /\ table = [rows |-> <<>>, invalid |-> {}]

NextProject ==
    \/ \E t \in ThreadIds, op \in Readers \cup Writers, item \in ProjectItems, outer \in BOOLEAN :
           /\ op \in Readers => item = BoxRef(1)
           /\ ThreadCall(t, op, item, outer)
    \/ \E t \in ThreadIds : ProjectEnter(t)
    \/ \E t \in ThreadIds : ProjectAdd(t)
    \/ \E t \in ThreadIds : ProjectRemove(t)
    \/ \E t \in ThreadIds : ProjectRead(t)
    \/ \E t \in ThreadIds : ProjectExit(t)
    \/ \E t \in ThreadIds : ThreadEndWith(t)

SpecProject == InitProject /\ [][NextProject]_vars

----------------------------------------------------------------------------
(* Claims about Project (SpecProject)                                      *)

InCall(t) == thread[t].pc \in {"body", "exit"}

\* a method body runs only while its thread owns the lock
BodyUnderLock == \A t \in ThreadIds : InCall(t) => lock.owner = t /\ lock.count >= 1

\* while a reader is in its body the list is the one it found, and the reader
\* has seen that list's first i - 1 items
ReaderSeesOneList ==
    \A t \in ThreadIds : (InCall(t) /\ thread[t].op \in Readers) =>
        /\ project.boxes = thread[t].pre
        /\ thread[t].seen = SubSeq(thread[t].pre, 1, thread[t].i - 1)

\* a finished call has had exactly its own effect on the list it found
OwnEffect ==
    /\ ret.op = "add" => ret.post = Append(ret.pre, ret.item)
    /\ (ret.op = "remove" /\ ret.outcome = "return") => Len(ret.post) = Len(ret.pre) - 1
    /\ (ret.op = "remove" /\ ret.outcome # "return") => ret.post = ret.pre
    /\ ret.op \in Readers =>
           /\ ret.post = ret.pre
           /\ ret.value = Project_result(ret.op, ret.pre)

\* some thread that has not finished can take its next step
NoDeadlock ==
    (\E t \in ThreadIds : thread[t].pc \notin {"start", "done"}) =>
        \E t \in ThreadIds :
            \/ thread[t].pc \in {"body", "exit", "endwith"}
            \/ thread[t].pc = "enter" /\ RLock_acquirable(t)

\* C21: add, remove, total_weight_kg, max_height_mm and to_dict run under the
\* project's reentrant lock: with concurrent callers every add appends its
\* item, every removal removes one element, a reader sees one unmodified
\* list, and a thread that holds the lock already is never stuck.
C21_ProjectOpsUnderLock == BodyUnderLock /\ ReaderSeesOneList /\ OwnEffect /\ NoDeadlock

\* C21 witness: a reader called under the caller's own hold of the lock has
\* finished over a non-empty list while the other thread, a writer, waits.
C21_Witness ==
    /\ ret.op \in Readers /\ ret.pre # <<>>
    /\ thread[ret.thread].outer /\ thread[ret.thread].pc = "endwith"
    /\ \E u \in ThreadIds \ {ret.thread} : thread[u].pc = "enter" /\ thread[u].op \in Writers

\* C29: remove(item) on a list that holds the item returns, leaves every
\* other object of the list in place and in order, and the item, when it was
\* in the list once, is gone.
C29_RemoveTakesThePassedObject ==
    (ret.op = "remove" /\ ret.item \in Range(ret.pre)) =>
        LET Other(x) == x # ret.item IN
        /\ ret.outcome = "return"
        /\ SelectSeq(ret.post, Other) = SelectSeq(ret.pre, Other)
        /\ Count(ret.pre, ret.item) = 1 => ret.item \notin Range(ret.post)

----------------------------------------------------------------------------
(* core/io_clp.py: documents, load_clp                                     *)

\* JSON values carry their type; an object is a record of its keys
JsonObject == "object"
Absent == [json |-> "absent"]
JsonString(str) == [json |-> "string", s |-> str]
JsonNumber(n) == [json |-> "number", n |-> n]
JsonArray(xs) == [json |-> "array", items |-> xs]
isinstance_dict(v) == v.json = JsonObject
isinstance_list(v) == v.json = "array"
isinstance_str(v) == v.json = "string"
has_key(obj, k) == k \in DOMAIN obj
dict_get(obj, k, default) == IF has_key(obj, k) THEN obj[k] ELSE default

\* version strings, character by character
Versions ==
    { <<"2", ".", "0", ".", "0">>,
      <<"1", ".", "0", ".", "0", "-", "r", "c", ".", "1">>,
      <<"1", ".", "0", ".", "0", "+", "b", "-", "7">>,
      <<"1", ".", "0", ".", "0", "-", "0", "1">>,
      <<"0", "1", ".", "0", ".", "0">>,
      <<"1", ".", "0">>,
      <<"2">>,
      <<>> }

Digit == {"0", "1", "2", "3", "4", "5", "6", "7", "8", "9"}
IdentChar == Digit \cup {"a", "b", "c", "r", "-"}

\* the index of the first c in s, Len(s) + 1 when there is none
RECURSIVE FirstIndex(_, _)
FirstIndex(s, c) ==
    IF s = <<>> THEN 1 ELSE IF Head(s) = c THEN 1 ELSE 1 + FirstIndex(Tail(s), c)

\* the pieces of s between the separators c
RECURSIVE Split(_, _)
Split(s, c) ==
    LET i == FirstIndex(s, c) IN
    IF i > Len(s) THEN <<s>>
    ELSE <<SubSeq(s, 1, i - 1)>> \o Split(SubSeq(s, i + 1, Len(s)), c)

AllIn(s, chars) == \A i \in 1..Len(s) : s[i] \in chars

\* 0|[1-9]\d*
NumericIdentifier(s) == s # <<>> /\ AllIn(s, Digit) /\ (s[1] = "0" => Len(s) = 1)

\* 0|[1-9A-Za-z-][0-9A-Za-z-]*
PreReleaseIdentifier(s) == s # <<>> /\ AllIn(s, IdentChar) /\ (s[1] = "0" => Len(s) = 1)

\* [0-9A-Za-z-]+
BuildIdentifier(s) == s # <<>> /\ AllIn(s, IdentChar)

\* _SEMVER_RE.match(version): X.Y.Z, then -prerelease, then +build
_SEMVER_RE_match(version) ==
    LET plus == FirstIndex(version, "+")
        front == SubSeq(version, 1, plus - 1)
        build == SubSeq(version, plus + 1, Len(version))
        dash == FirstIndex(front, "-")
        core == Split(SubSeq(front, 1, dash - 1), ".")
        pre == Split(SubSeq(front, dash + 1, Len(front)), ".")
    IN  /\ Len(core) = 3
        /\ \A i \in 1..3 : NumericIdentifier(core[i])
        /\ dash <= Len(front) => \A i \in 1..Len(pre) : PreReleaseIdentifier(pre[i])
        /\ plus <= Len(version) =>
               \A i \in 1..Len(Split(build, ".")) : BuildIdentifier(Split(build, ".")[i])

\* _validate_semver raises ClpFormatError unless the version matches
_validate_semver(version) == IF _SEMVER_RE_match(version) THEN "ok" ELSE "ClpFormatError"

\* timestamps, and those that datetime.fromisoformat parses
\* datetime.now(tz=timezone.utc).isoformat() at the time of a save
now_iso == "2024-06-01T12:00:00+00:00"
Timestamps == {"2024-01-01T00:00:00+00:00", "2024-01-01T00:00:00", now_iso, "yesterday", ""}
fromisoformat_parses(str) == str \in {"2024-01-01T00:00:00+00:00", "2024-01-01T00:00:00", now_iso}
_validate_iso_datetime(str) == IF fromisoformat_parses(str) THEN "ok" ELSE "ClpFormatError"

\* the container of the definitions, and the definitions as loaded
Container20 ==
    [id |-> "20ft", name |-> "20ft Standard", inner_length_mm |-> 5900, inner_width_mm |-> 2350,
     inner_height_mm |-> 2390, door_height_mm |-> 2280]
ContainerDefinitions == { {}, {Container20} }

\* the meta objects of a document
ValidMetaObject ==
    [json |-> JsonObject, version |-> <<"2", ".", "0", ".", "0">>,
     created_at |-> "2024-01-01T00:00:00+00:00", user |-> JsonString("pytest")]
MetaValues ==
    { ValidMetaObject,
      [ValidMetaObject EXCEPT !.version = <<"2">>],
      [ValidMetaObject EXCEPT !.created_at = "yesterday"],
      [ValidMetaObject EXCEPT !.user = JsonNumber(7)],
      [json |-> JsonObject, version |-> <<"2", ".", "0", ".", "0">>,
       created_at |-> "2024-01-01T00:00:00"],
      JsonString("meta"),
      Absent }

ContainerObject(id) == [json |-> JsonObject, id |-> id]
ContainerValues ==
    { Absent, ContainerObject("20ft"), ContainerObject("40ft"),
      [json |-> JsonObject, name |-> "20ft Standard"], JsonString("20ft") }
ContainersValues ==
    { Absent, JsonArray(<<ContainerObject("20ft")>>), JsonArray(<<ContainerObject("40ft")>>),
      JsonArray(<<ContainerObject("20ft"), ContainerObject("40ft")>>),
      JsonArray(<<>>), JsonString("40ft") }

\* the entries of a 'boxes' list; weight, colour and position are carried
\* along unchanged and are left out
BoxEntry ==
    [json |-> JsonObject, type |-> "box", name |-> "b", length_mm |-> 400, width_mm |-> 300,
     height_mm |-> 100, rot_deg |-> 0]
StackEntry ==
    [json |-> JsonObject, type |-> "stack", name |-> "s", count |-> 2, length_mm |-> 400,
     width_mm |-> 300, height_mm |-> 100, rot_deg |-> 90]
BoxesValues ==
    { Absent, JsonArray(<<>>), JsonArray(<<BoxEntry>>), JsonArray(<<StackEntry, BoxEntry>>),
      JsonArray(<<[BoxEntry EXCEPT !.rot_deg = 45]>>),
      JsonArray(<<[StackEntry EXCEPT !.count = 0]>>),
      JsonArray(<<[BoxEntry EXCEPT !.type = "pallet"]>>),
      JsonArray(<<[json |-> JsonObject, name |-> "b"]>>),
      JsonArray(<<JsonString("b")>>),
      JsonString("boxes") }

\* a document: a JSON object with some of the keys meta, container,
\* containers and boxes
Document(meta, cont, conts, bxs) ==
    LET keys == {"json"} \cup (IF meta = Absent THEN {} ELSE {"meta"})
                         \cup (IF cont = Absent THEN {} ELSE {"container"})
                         \cup (IF conts = Absent THEN {} ELSE {"containers"})
                         \cup (IF bxs = Absent THEN {} ELSE {"boxes"})
    IN  [k \in keys |-> CASE k = "json" -> JsonObject
                          [] k = "meta" -> meta
                          [] k = "container" -> cont
                          [] k = "containers" -> conts
                          [] k = "boxes" -> bxs]

NoFile == [json |-> "no file"]
NotJson == [json |-> "not json"]

\* Box(**data) after from_dict has dropped 'type': __post_init__
Box_from_dict(d) ==
    IF ~({"name", "length_mm", "width_mm", "height_mm"} \subseteq DOMAIN d) THEN [outcome |-> "TypeError"]
    ELSE IF dict_get(d, "rot_deg", 0) \notin {0, 90} THEN [outcome |-> "ValidationError"]
    ELSE IF d.length_mm <= 0 \/ d.width_mm <= 0 \/ d.height_mm <= 0 THEN [outcome |-> "ValidationError"]
    ELSE [outcome |-> "return",
          value |-> [class |-> "Box", name |-> d.name, length_mm |-> d.length_mm,
                     width_mm |-> d.width_mm, height_mm |-> d.height_mm,
                     rot_deg |-> dict_get(d, "rot_deg", 0)]]

Box_to_dict(b) ==
    [json |-> JsonObject, type |-> "box", name |-> b.name, length_mm |-> b.length_mm,
     width_mm |-> b.width_mm, height_mm |-> b.height_mm, rot_deg |-> b.rot_deg]

\* Stack.from_dict: `count` boxes named name_1, name_2, ..., then Stack(...)
Stack_from_dict(d) ==
    IF ~({"count", "name", "rot_deg", "length_mm", "width_mm", "height_mm"} \subseteq DOMAIN d)
    THEN [outcome |-> "KeyError"]
    ELSE LET b == Box_from_dict([d EXCEPT !.name = <<d.name, 1>>]) IN
         IF d.count > 0 /\ b.outcome # "return" THEN b
         ELSE IF d.count <= 0 THEN [outcome |-> "ValueError"]
         ELSE [outcome |-> "return",
               value |-> [class |-> "Stack", name |-> d.name,
                          _boxes |-> [i \in 1..d.count |-> [b.value EXCEPT !.name = <<d.name, i>>]]]]

Stack_to_dict(st) ==
    [json |-> JsonObject, type |-> "stack", name |-> st.name, count |-> Len(st._boxes),
     length_mm |-> st._boxes[1].length_mm, width_mm |-> st._boxes[1].width_mm,
     height_mm |-> st._boxes[1].height_mm, rot_deg |-> st._boxes[1].rot_deg]

Item_to_dict(x) == IF x.class = "Box" THEN Box_to_dict(x) ELSE Stack_to_dict(x)

\* one entry of 'boxes' in load_clp
load_item(entry) ==
    IF ~isinstance_dict(entry) THEN [outcome |-> "ClpFormatError"]
    ELSE IF ~has_key(entry, "type") THEN [outcome |-> "ClpFormatError"]
    ELSE IF entry.type = "box" THEN
        LET r == Box_from_dict(entry) IN IF r.outcome = "return" THEN r ELSE [outcome |-> "ClpFormatError"]
    ELSE IF entry.type = "stack" THEN
        LET r == Stack_from_dict(entry) IN IF r.outcome = "return" THEN r ELSE [outcome |-> "ClpFormatError"]
    ELSE [outcome |-> "ClpFormatError"]

\* the 'container' object, else the element of a one-element 'containers'
container_raw_no_legacy(raw) == dict_get(raw, "container", Absent)

container_raw_of(raw) ==
    LET c == dict_get(raw, "container", Absent)
        l == dict_get(raw, "containers", Absent)
    IN  IF c # Absent THEN c
        ELSE IF isinstance_list(l) /\ Len(l.items) = 1 THEN l.items[1]
        ELSE c

Raise(exc) == [outcome |-> exc, value |-> NoValue]

\* load_clp on the content of the file, with the container definitions that
\* load_containers_definitions() returns
load_clp(content, container_defs) ==
    IF content = NoFile THEN Raise("FileNotFoundError")
    ELSE IF content = NotJson THEN Raise("ClpFormatError")
    ELSE
    LET raw == content
        meta == dict_get(raw, "meta", [json |-> JsonObject])
    IN
    IF ~isinstance_dict(meta) THEN Raise("ClpFormatError")
    ELSE IF _validate_semver(dict_get(meta, "version", <<>>)) # "ok" THEN Raise("ClpFormatError")
    ELSE IF _validate_iso_datetime(dict_get(meta, "created_at", "")) # "ok" THEN Raise("ClpFormatError")
    ELSE IF ~has_key(meta, "user") THEN Raise("ClpFormatError")
    ELSE IF ~isinstance_str(meta.user) THEN Raise("ClpFormatError")
    ELSE
    LET container_raw == container_raw_of(raw) IN
    IF ~isinstance_dict(container_raw) THEN Raise("ClpFormatError")
    ELSE
    LET found == { c \in container_defs : has_key(container_raw, "id") /\ c.id = container_raw.id } IN
    IF found = {} THEN Raise("ContainerNotFoundError")
    ELSE
    LET boxes_raw == dict_get(raw, "boxes", JsonArray(<<>>)) IN
    IF ~isinstance_list(boxes_raw) THEN Raise("ClpFormatError")
    ELSE
    LET loaded == [i \in 1..Len(boxes_raw.items) |-> load_item(boxes_raw.items[i])] IN
    IF \E i \in 1..Len(loaded) : loaded[i].outcome # "return" THEN Raise("ClpFormatError")
    ELSE [outcome |-> "return",
          value |-> [container |-> CHOOSE c \in found : TRUE,
                     boxes |-> [i \in 1..Len(loaded) |-> loaded[i].value],
                     meta |-> [kind |-> "ProjectMeta", created_at |-> meta.created_at,
                               version |-> meta.version, user |-> meta.user.s]]]

\* load_clp(path)
LoadClp ==
    /\ ret.op = "none"
    /\ \E r \in {load_clp(files.target, files.defs)} :
           ret' = [op |-> "load_clp", content |-> files.target, defs |-> files.defs,
                   outcome |-> r.outcome, value |-> r.value]
    /\ UNCHANGED <<box, stacks, container, project, lock, thread, files, canvases, table>>

InitLoad ==
    /\ box = [b \in BoxIds |-> ProjectBase]
    /\ stacks = [s \in StackIds |-> <<>>]
    /\ container = StackContainer
    /\ ret = NoCall
    /\ project = [boxes |-> <<>>]
    /\ lock = [owner |-> 0, count |-> 0]
    /\ thread = <<>>
    /\ \E content \in {NoFile, NotJson} \cup
                      { Document(m, c, l, b) : m \in MetaValues, c \in ContainerValues,
                                               l \in ContainersValues, b \in BoxesValues },
          defs \in ContainerDefinitions :
          files = [target |-> content, defs |-> defs]
    /\ canvases = <<>>
    /\ table = [rows |-> <<>>, invalid |-> {}]

NextLoad == LoadClp

SpecLoad == InitLoad /\ [][NextLoad]_vars

----------------------------------------------------------------------------
(* Claims about load_clp (SpecLoad)                                        *)

\* the document's meta passes the checks of load_clp
ValidMeta(raw) ==
    /\ has_key(raw, "meta") /\ isinstance_dict(raw.meta)
    /\ has_key(raw.meta, "version") /\ _SEMVER_RE_match(raw.meta.version)
    /\ has_key(raw.meta, "created_at") /\ fromisoformat_parses(raw.meta.created_at)
    /\ has_key(raw.meta, "user") /\ isinstance_str(raw.meta.user)

\* the id the document names: in its 'container' object or, without one, in
\* a one-element 'containers' list
NamedIds(raw) ==
    IF has_key(raw, "container")
    THEN IF isinstance_dict(raw.container) /\ has_key(raw.container, "id") THEN {raw.container.id} ELSE {}
    ELSE IF has_key(raw, "containers") /\ isinstance_list(raw.containers)
            /\ Len(raw.containers.items) = 1 /\ has_key(raw.containers.items[1], "id")
         THEN {raw.containers.items[1].id} ELSE {}

IsDocument(content) == content.json = JsonObject

\* C23: load_clp raises ContainerNotFoundError and returns no project when
\* the document has valid meta and names a container id that the loaded
\* definitions do not hold.
C23_UnknownContainerRaises ==
    (/\ ret.op = "load_clp" /\ IsDocument(ret.content) /\ ValidMeta(ret.content)
     /\ \E id \in NamedIds(ret.content) : \A c \in ret.defs : c.id # id)
    => ret.outcome = "ContainerNotFoundError" /\ ret.value = NoValue

\* C23 witness: ContainerNotFoundError for an id named in a legacy
\* 'containers' list while the definitions hold another container.
C23_Witness ==
    /\ ret.op = "load_clp" /\ IsDocument(ret.content) /\ ValidMeta(ret.content)
    /\ ~has_key(ret.content, "container")
    /\ "40ft" \in NamedIds(ret.content)
    /\ ret.defs # {}
    /\ ret.outcome = "ContainerNotFoundError"

----------------------------------------------------------------------------
(* core/io_clp.py: save_clp                                                *)

\* the arguments of save_clp
SaveVersions ==
    { <<"2", ".", "0", ".", "0">>,
      <<"1", ".", "0", ".", "0", "-", "r", "c", ".", "1">>,
      <<"2">> }
SaveUsers == {"pytest"}

\* the item lists of a project that is saved
SavedBoxes ==
    { <<>>,
      <<Box_from_dict(BoxEntry).value>>,
      <<Stack_from_dict(StackEntry).value, Box_from_dict(BoxEntry).value>> }

\* Project.meta: the ProjectMeta of models.py, or the dict that the tests
\* pass in its place
InitialMeta(kind) ==
    [kind |-> kind, created_at |-> "2024-01-01T00:00:00+00:00",
     version |-> <<"1", ".", "0", ".", "0">>, user |-> "unknown"]

\* the file system around the target: its directory, the target's content,
\* whether another program holds the target, and the temporary files
FileSystems ==
    { [parent |-> "dir", target |-> NoFile, locked |-> FALSE, tmp |-> {}],
      [parent |-> "dir", target |-> NotJson, locked |-> FALSE, tmp |-> {}],
      [parent |-> "dir", target |-> NotJson, locked |-> TRUE, tmp |-> {}],
      [parent |-> "missing", target |-> NoFile, locked |-> FALSE, tmp |-> {}],
      [parent |-> "file", target |-> NoFile, locked |-> FALSE, tmp |-> {}] }

_ensure_writeable(fs) ==
    IF fs.target = NoFile
    THEN IF fs.parent = "missing" THEN "FileNotFoundError"
         ELSE IF fs.parent # "dir" THEN "FileLockedError"
         ELSE "ok"
    ELSE IF fs.locked THEN "FileLockedError" ELSE "ok"

\* project.meta[key] = value: a dict takes it, a ProjectMeta raises TypeError
meta_setitem(meta, key, value) ==
    IF meta.kind = "dict"
    THEN [outcome |-> "return", meta |-> [meta EXCEPT ![key] = value]]
    ELSE [outcome |-> "TypeError", meta |-> meta]

\* self.meta.to_dict(): ProjectMeta has the method, a dict has not
ProjectMeta_to_dict(meta) ==
    IF meta.kind = "ProjectMeta"
    THEN [outcome |-> "return",
          value |-> [json |-> JsonObject, created_at |-> meta.created_at,
                     version |-> meta.version, user |-> JsonString(meta.user)]]
    ELSE [outcome |-> "AttributeError"]

Container_to_dict(c) ==
    [json |-> JsonObject, id |-> c.id, name |-> c.name, inner_length_mm |-> c.inner_length_mm,
     inner_width_mm |-> c.inner_width_mm, inner_height_mm |-> c.inner_height_mm,
     door_height_mm |-> c.door_height_mm]

\* Project.to_dict, written out by json.dumps
Project_to_dict(p) ==
    LET m == ProjectMeta_to_dict(p.meta) IN
    IF m.outcome # "return" THEN [outcome |-> m.outcome]
    ELSE [outcome |-> "return",
          value |-> Document(m.value, Container_to_dict(p.container), Absent,
                             JsonArray([i \in 1..Len(p.boxes) |-> Item_to_dict(p.boxes[i])]))]

\* _atomic_write, first half: the serialisation goes into a temporary file
\* of its own in the target's directory
_atomic_write_tmp(fs, t, data) == [fs EXCEPT !.tmp = @ \cup {[by |-> t, content |-> data]}]

\* _atomic_write, second half: tmp_path.replace(target)
_atomic_write_replace(fs, t) ==
    LET mine == CHOOSE f \in fs.tmp : f.by = t IN
    [fs EXCEPT !.target = mine.content, !.tmp = @ \ {mine}]

NotSaving ==
    [pc |-> "start", user |-> "", version |-> <<>>, outcome |-> "none", data |-> NoValue,
     target |-> NoFile, meta |-> NoValue]

\* thread t calls save_clp(project, path, user, version)
SaveCall(t, user, version) ==
    /\ thread[t].pc = "start"
    /\ thread' = [thread EXCEPT ![t] = [NotSaving EXCEPT !.pc = "lock", !.user = user,
                                                         !.version = version]]
    /\ UNCHANGED <<box, stacks, container, ret, project, lock, files, canvases, table>>

\* `with _SAVE_LOCK:` on entry
SaveAcquire(t) ==
    /\ thread[t].pc = "lock"
    /\ RLock_acquirable(t)
    /\ lock' = RLock_acquire(t)
    /\ thread' = [thread EXCEPT ![t].pc = "writeable", ![t].target = files.target,
                                ![t].meta = project.meta]
    /\ UNCHANGED <<box, stacks, container, ret, project, files, canvases, table>>

\* the statements of save_clp under the lock, one at a time; an exception
\* leaves the block
SaveStep(t) ==
    /\ thread[t].pc \in {"writeable", "semver", "created_at", "user", "version",
                         "to_dict", "tmp", "replace"}
    /\ LET pc == thread[t].pc
           Goto(next) == thread' = [thread EXCEPT ![t].pc = next]
           Fail(exc) == thread' = [thread EXCEPT ![t].pc = "unlock", ![t].outcome = exc]
           Assign(key, value, next) ==
               LET r == meta_setitem(project.meta, key, value) IN
               /\ project' = [project EXCEPT !.meta = r.meta]
               /\ IF r.outcome = "return" THEN Goto(next) ELSE Fail(r.outcome)
               /\ UNCHANGED files
       IN
       CASE pc = "writeable" ->
                /\ IF _ensure_writeable(files) = "ok" THEN Goto("semver")
                   ELSE Fail(_ensure_writeable(files))
                /\ UNCHANGED <<project, files>>
         [] pc = "semver" ->
                /\ IF _validate_semver(thread[t].version) = "ok" THEN Goto("created_at")
                   ELSE Fail(_validate_semver(thread[t].version))
                /\ UNCHANGED <<project, files>>
         [] pc = "created_at" -> Assign("created_at", now_iso, "user")
         [] pc = "user" -> Assign("user", thread[t].user, "version")
         [] pc = "version" -> Assign("version", thread[t].version, "to_dict")
         [] pc = "to_dict" ->
                /\ LET r == Project_to_dict(project) IN
                   IF r.outcome = "return"
                   THEN thread' = [thread EXCEPT ![t].pc = "tmp", ![t].data = r.value]
                   ELSE Fail("ClpFormatError")
                /\ UNCHANGED <<project, files>>
         [] pc = "tmp" ->
                /\ files' = _atomic_write_tmp(files, t, thread[t].data)
                /\ Goto("replace")
                /\ UNCHANGED project
         [] pc = "replace" ->
                /\ files' = _atomic_write_replace(files, t)
                /\ thread' = [thread EXCEPT ![t].pc = "unlock", ![t].outcome = "return"]
                /\ UNCHANGED project
    /\ UNCHANGED <<box, stacks, container, ret, lock, canvases, table>>

\* `with _SAVE_LOCK:` on exit, by return or by exception
SaveRelease(t) ==
    /\ thread[t].pc = "unlock"
    /\ lock' = RLock_release
    /\ ret' = [op |-> "save_clp", thread |-> t, user |-> thread[t].user,
               version |-> thread[t].version, outcome |-> thread[t].outcome,
               writeable |-> _ensure_writeable([files EXCEPT !.target = thread[t].target]),
               pre |-> [target |-> thread[t].target, meta |-> thread[t].meta],
               post |-> [target |-> files.target, meta |-> project.meta],
               project |-> project]
    /\ thread' = [thread EXCEPT ![t].pc = "done"]
    /\ UNCHANGED <<box, stacks, container, project, files, canvases, table>>

InitSave ==
    /\ box = [b \in BoxIds |-> ProjectBase]
    /\ stacks = [s \in StackIds |-> <<>>]
    /\ container = StackContainer
    /\ ret = NoCall
    /\ \E kind \in {"ProjectMeta", "dict"}, bs \in SavedBoxes :
           project = [container |-> Container20, boxes |-> bs, meta |-> InitialMeta(kind)]
    /\ lock = [owner |-> 0, count |-> 0]
    /\ thread = [t \in ThreadIds |-> NotSaving]
    /\ files \in FileSystems
    /\ canvases = <<>>
    /\ table = [rows |-> <<>>, invalid |-> {}]

NextSave ==
    \/ \E t \in ThreadIds, user \in SaveUsers, version \in SaveVersions : SaveCall(t, user, version)
    \/ \E t \in ThreadIds : SaveAcquire(t)
    \/ \E t \in ThreadIds : SaveStep(t)
    \/ \E t \in ThreadIds : SaveRelease(t)

SpecSave == InitSave /\ [][NextSave]_vars

----------------------------------------------------------------------------
(* Claims about save_clp (SpecSave)                                        *)

\* a call with a SemVer version whose target it found writeable
GoodSave == ret.op = "save_clp" /\ _SEMVER_RE_match(ret.version) /\ ret.writeable = "ok"

DictsOf(items) == { Item_to_dict(items[i]) : i \in 1..Len(items) }

\* C22: save_clp with a valid version and a writeable target returns, and
\* load_clp of the file it leaves yields the saved container, items of the
\* same dictionaries, and the user and the version of the call.
C22_SaveLoadRoundTrip ==
    GoodSave =>
        /\ ret.outcome = "return"
        /\ LET loaded == load_clp(ret.post.target, {ret.project.container}) IN
           /\ loaded.outcome = "return"
           /\ loaded.value.container = ret.project.container
           /\ DictsOf(loaded.value.boxes) = DictsOf(ret.project.boxes)
           /\ loaded.value.meta.user = ret.user
           /\ loaded.value.meta.version = ret.version

\* C30: a save_clp call that raises leaves the target's content and the
\* project's meta as it found them.
C30_FailedSaveChangesNothing ==
    (ret.op = "save_clp" /\ ret.outcome # "return") =>
        /\ ret.post.target = ret.pre.target
        /\ ret.post.meta = ret.pre.meta

Saved(t) ==
    /\ thread[t].pc = "done"
    /\ _SEMVER_RE_match(thread[t].version)
    /\ _ensure_writeable([files EXCEPT !.target = thread[t].target]) = "ok"

\* the saves run one at a time
SavesSerialised ==
    \A t \in ThreadIds :
        thread[t].pc \notin {"start", "lock", "done"} => lock.owner = t /\ lock.count = 1

\* C24: the saves are serialised and each replaces the target in one step:
\* the target never holds anything but its first content or one call's
\* complete serialisation, and once the calls with a valid version and a
\* writeable target are done it holds the serialisation of one of them.
C24_ConcurrentSavesReplaceAtomically ==
    /\ SavesSerialised
    /\ files.target \in {NoFile, NotJson} \/ files.target.json = JsonObject
    /\ (\A t \in ThreadIds : Saved(t)) => \E t \in ThreadIds : files.target = thread[t].data

----------------------------------------------------------------------------
(* gui/canvas_2d.py: the zoom of Canvas2D and its peer-to-peer wiring      *)

\* the zoom levels in percent; Python's indices 0..3 are kept
_ZOOM_LEVELS == <<25, 50, 100, 200>>
ZoomLevel(idx) == _ZOOM_LEVELS[idx + 1]

\* _ZOOM_LEVELS.index(level); -1 stands for ValueError
ZoomIndex(level) ==
    IF \E i \in 1..Len(_ZOOM_LEVELS) : _ZOOM_LEVELS[i] = level
    THEN (CHOOSE i \in 1..Len(_ZOOM_LEVELS) : _ZOOM_LEVELS[i] = level) - 1
    ELSE -1

CanvasIds == {1, 2, 3}
WheelDeltas == {-120, 0, 120}

\* no Canvas2D yet: no zoom index, an empty Canvas2D._instances and no
\* signal connection
NoCanvases == [zoom |-> [c \in {} |-> 0], instances |-> <<>>, connected |-> {}]

Created == DOMAIN canvases.zoom
Registered == Range(canvases.instances)

\* peer._apply_external_zoom(factor): the index after the slot has run
_apply_external_zoom(idx, level) ==
    IF ZoomIndex(level) = -1 THEN idx
    ELSE IF ZoomIndex(level) = idx THEN idx
    ELSE ZoomIndex(level)

\* Canvas2D(...): the zoom starts at 100 %, then _register_instance connects
\* the canvas with every registered peer in both directions
CanvasNew(c) ==
    /\ c \notin Created
    /\ canvases' =
           [zoom |-> [d \in Created \cup {c} |->
                          IF d = c THEN ZoomIndex(100) ELSE canvases.zoom[d]],
            instances |-> Append(canvases.instances, c),
            connected |-> canvases.connected
                              \cup { <<c, peer>> : peer \in Registered }
                              \cup { <<peer, c>> : peer \in Registered }]
    /\ UNCHANGED <<box, stacks, container, ret, project, lock, thread, files, table>>

\* wheelEvent: with Ctrl and a turn of the wheel the index moves by one
\* within 0..3; a changed index is emitted to the connected peers, whose slots
\* run before emit returns
WheelEvent(c, ctrl, delta) ==
    /\ c \in Registered
    /\ LET idx == canvases.zoom[c]
           step == idx + (IF delta > 0 THEN 1 ELSE -1)
           upper == IF step < Len(_ZOOM_LEVELS) - 1 THEN step ELSE Len(_ZOOM_LEVELS) - 1
           new_idx == IF upper > 0 THEN upper ELSE 0
       IN
       IF ~ctrl \/ delta = 0 \/ new_idx = idx
       THEN UNCHANGED canvases
       ELSE canvases' =
                [canvases EXCEPT !.zoom =
                    [d \in Created |->
                        IF d = c THEN new_idx
                        ELSE IF <<c, d>> \in canvases.connected
                        THEN _apply_external_zoom(canvases.zoom[d], ZoomLevel(new_idx))
                        ELSE canvases.zoom[d]]]
    /\ UNCHANGED <<box, stacks, container, ret, project, lock, thread, files, table>>

\* closeEvent: _unregister_instance removes the canvas from the registry and
\* disconnects it from the remaining peers
CloseEvent(c) ==
    /\ c \in Registered
    /\ canvases' =
           [canvases EXCEPT
               !.instances = SelectSeq(@, LAMBDA d : d # c),
               !.connected = { p \in @ : p[1] # c /\ p[2] # c }]
    /\ UNCHANGED <<box, stacks, container, ret, project, lock, thread, files, table>>

InitCanvas ==
    /\ box = [b \in BoxIds |-> ProjectBase]
    /\ stacks = [s \in StackIds |-> <<>>]
    /\ container = StackContainer
    /\ ret = NoCall
    /\ project = [boxes |-> <<>>]
    /\ lock = [owner |-> 0, count |-> 0]
    /\ thread = <<>>
    /\ files = <<>>
    /\ canvases = NoCanvases
    /\ table = [rows |-> <<>>, invalid |-> {}]

NextCanvas ==
    \/ \E c \in CanvasIds : CanvasNew(c)
    \/ \E c \in CanvasIds, ctrl \in BOOLEAN, delta \in WheelDeltas : WheelEvent(c, ctrl, delta)
    \/ \E c \in CanvasIds : CloseEvent(c)

SpecCanvas == InitCanvas /\ [][NextCanvas]_vars

----------------------------------------------------------------------------
(* Claims about the zoom (SpecCanvas)                                      *)

\* C25: every canvas's zoom is one of the four levels, and all registered
\* canvases have the same zoom level.
C25_ZoomLevelsAndSync ==
    /\ \A c \in Created : canvases.zoom[c] \in 0..(Len(_ZOOM_LEVELS) - 1)
    /\ \A c, d \in Registered : canvases.zoom[c] = canvases.zoom[d]

----------------------------------------------------------------------------
(* gui/table_widget.py: rows, cell validation and read_boxes               *)

COL_NAME == 0
COL_QTY == 1
COL_L == 2
COL_W == 3
COL_H == 4
COL_WEIGHT == 5
ValidatedColumns == COL_NAME..COL_WEIGHT

\* the most rows the table gets
MaxRows == 2

\* the texts a user types into a cell of a column, character by character
CellTexts(col) ==
    CASE col = COL_NAME -> { <<"b">> }
      [] col = COL_QTY -> { <<"1">>, <<" ", "0">> }
      [] col = COL_L -> { <<>>, <<"4", "0">> }
      [] col = COL_WEIGHT -> { <<>> }
      [] OTHER -> { <<"4", "0">> }

\* the texts of a row that add_row has just inserted
DefaultRow == [col \in ValidatedColumns |-> IF col = COL_QTY THEN <<"1">> ELSE <<>>]

\* str.strip() for texts with blanks
RECURSIVE lstrip(_)
lstrip(text) == IF text # <<>> /\ Head(text) = " " THEN lstrip(Tail(text)) ELSE text
RECURSIVE rstrip(_)
rstrip(text) ==
    IF text # <<>> /\ text[Len(text)] = " " THEN rstrip(SubSeq(text, 1, Len(text) - 1)) ELSE text
strip(text) == rstrip(lstrip(text))

\* str.isdigit()
isdigit(text) == text # <<>> /\ AllIn(text, Digit)

DigitValue(ch) ==
    CASE ch = "0" -> 0 [] ch = "1" -> 1 [] ch = "2" -> 2 [] ch = "3" -> 3 [] ch = "4" -> 4
      [] ch = "5" -> 5 [] ch = "6" -> 6 [] ch = "7" -> 7 [] ch = "8" -> 8 [] ch = "9" -> 9

RECURSIVE DecimalValue(_)
DecimalValue(text) ==
    IF text = <<>> THEN 0
    ELSE 10 * DecimalValue(SubSeq(text, 1, Len(text) - 1)) + DigitValue(text[Len(text)])

\* int(text) and float(text) for texts of digits, letters and blanks: blanks
\* around the digits are ignored, anything else raises ValueError
int(text) ==
    IF isdigit(strip(text)) THEN [outcome |-> "return", value |-> DecimalValue(strip(text))]
    ELSE [outcome |-> "ValueError"]
float(text) == int(text)

\* _validate_cell: the verdict on the text of a cell of column col
_validate_cell(col, cellText) ==
    LET text == strip(cellText) IN
    CASE col = COL_NAME -> text # <<>>
      [] col \in {COL_QTY, COL_L, COL_W, COL_H} -> isdigit(text) /\ int(text).value > 0
      [] col = COL_WEIGHT ->
             IF text = <<>> THEN TRUE
             ELSE IF float(text).outcome = "return" THEN float(text).value >= 0 ELSE FALSE
      [] OTHER -> TRUE

\* _set_cell_valid on _invalid_cells
_set_cell_valid(invalid, row, col, valid) ==
    IF valid THEN invalid \ {<<row, col>>} ELSE invalid \cup {<<row, col>>}

RECURSIVE ValidateCells(_, _, _, _)
ValidateCells(invalid, row, texts, cols) ==
    IF cols = {} THEN invalid
    ELSE LET col == CHOOSE c \in cols : TRUE IN
         ValidateCells(_set_cell_valid(invalid, row, col, _validate_cell(col, texts[col])),
                       row, texts, cols \ {col})

\* rows are counted from 0 as in Qt
RowCount == Len(table.rows)
RowAt(row) == table.rows[row + 1]

\* add_row: a row of defaults at the end, its cells 0..5 validated
AddRow ==
    /\ ret.op = "none"
    /\ RowCount < MaxRows
    /\ table' = [rows |-> Append(table.rows, DefaultRow),
                 invalid |-> ValidateCells(table.invalid, RowCount, DefaultRow, ValidatedColumns)]
    /\ UNCHANGED <<box, stacks, container, ret, project, lock, thread, files, canvases>>

\* the user edits a cell: itemChanged calls _validate_item on it
EditCell(row, col, text) ==
    /\ ret.op = "none"
    /\ row < RowCount
    /\ RowAt(row)[col] # text
    /\ table' = [rows |-> [table.rows EXCEPT ![row + 1][col] = text],
                 invalid |-> _set_cell_valid(table.invalid, row, col, _validate_cell(col, text))]
    /\ UNCHANGED <<box, stacks, container, ret, project, lock, thread, files, canvases>>

\* the rows that remain, in order
RECURSIVE RemoveRows(_, _, _)
RemoveRows(rows, selected, row) ==
    IF rows = <<>> THEN <<>>
    ELSE (IF row \in selected THEN <<>> ELSE <<Head(rows)>>)
             \o RemoveRows(Tail(rows), selected, row + 1)

\* remove_selected_rows: removeRow for every selected row, from the bottom;
\* _invalid_cells is not touched
RemoveSelectedRows(selected) ==
    /\ ret.op = "none"
    /\ selected \subseteq 0..(RowCount - 1)
    /\ table' = [table EXCEPT !.rows = RemoveRows(@, selected, 0)]
    /\ UNCHANGED <<box, stacks, container, ret, project, lock, thread, files, canvases>>

\* the objects read_boxes builds from one row, or the exception of int(...)
read_row(row, stacked) ==
    LET texts == RowAt(row)
        qty == int(texts[COL_QTY])
        l_mm == int(texts[COL_L])
        w_mm == int(texts[COL_W])
        h_mm == int(texts[COL_H])
        weight_txt == strip(texts[COL_WEIGHT])
        weight_kg == IF weight_txt = <<>> THEN [outcome |-> "return", value |-> 0] ELSE float(weight_txt)
    IN  IF \E r \in {qty, l_mm, w_mm, h_mm, weight_kg} : r.outcome # "return"
        THEN [outcome |-> "ValueError"]
        ELSE IF l_mm.value <= 0 \/ w_mm.value <= 0 \/ h_mm.value <= 0
        THEN [outcome |-> "ValidationError"]
        ELSE IF stacked /\ qty.value = 0
        THEN [outcome |-> "ValueError"]
        ELSE LET single == [class |-> "Box", row |-> row, length_mm |-> l_mm.value,
                            width_mm |-> w_mm.value, height_mm |-> h_mm.value]
             IN  [outcome |-> "return",
                  value |-> IF stacked
                            THEN <<[class |-> "Stack", row |-> row,
                                    _boxes |-> [i \in 1..qty.value |-> single]]>>
                            ELSE [i \in 1..qty.value |-> single]]

\* read_boxes from row `row` on: rows with an entry in _invalid_cells are
\* skipped, the others are read
RECURSIVE read_boxes_from(_, _)
read_boxes_from(row, stacked) ==
    IF row >= RowCount THEN [outcome |-> "return", value |-> <<>>]
    ELSE IF \E c \in 0..6 : <<row, c>> \in table.invalid
    THEN read_boxes_from(row + 1, stacked)
    ELSE LET r == read_row(row, stacked) IN
         IF r.outcome # "return" THEN [outcome |-> r.outcome, value |-> <<>>]
         ELSE LET rest == read_boxes_from(row + 1, stacked) IN
              IF rest.outcome # "return" THEN rest
              ELSE [outcome |-> "return", value |-> r.value \o rest.value]

\* read_boxes(stacked=...)
ReadBoxes(stacked) ==
    /\ ret.op = "none"
    /\ \E r \in {read_boxes_from(0, stacked)} :
           ret' = [op |-> "read_boxes", stacked |-> stacked, outcome |-> r.outcome,
                   value |-> r.value]
    /\ UNCHANGED <<box, stacks, container, project, lock, thread, files, canvases, table>>

InitTable ==
    /\ box = [b \in BoxIds |-> ProjectBase]
    /\ stacks = [s \in StackIds |-> <<>>]
    /\ container = StackContainer
    /\ ret = NoCall
    /\ project = [boxes |-> <<>>]
    /\ lock = [owner |-> 0, count |-> 0]
    /\ thread = <<>>
    /\ files = <<>>
    /\ canvases = <<>>
    /\ table = [rows |-> <<>>, invalid |-> {}]

NextTable ==
    \/ AddRow
    \/ \E row \in 0..(MaxRows - 1), col \in ValidatedColumns : \E text \in CellTexts(col) :
           EditCell(row, col, text)
    \/ \E selected \in SUBSET (0..(MaxRows - 1)) : selected # {} /\ RemoveSelectedRows(selected)
    \/ \E stacked \in BOOLEAN : ReadBoxes(stacked)

SpecTable == InitTable /\ [][NextTable]_vars

----------------------------------------------------------------------------
(* Claims about the table (SpecTable)                                      *)

\* every cell of the row holds a text that _validate_cell accepts
RowValid(row) == \A col \in ValidatedColumns : _validate_cell(col, RowAt(row)[col])

\* C26: read_boxes returns, and the objects it returns come from exactly
\* the rows whose cells are all valid.
C26_ReadBoxesUsesValidRows ==
    ret.op = "read_boxes" =>
        /\ ret.outcome = "return"
        /\ \A row \in 0..(RowCount - 1) :
               RowValid(row) <=> \E i \in 1..Len(ret.value) : ret.value[i].row = row

====
